---------------------------- MODULE Spec2Model ----------------------------
(***************************************************************************)
(* Model of the dashboard builder: its data-analysis core and the state   *)
(* of the page around it.                                                  *)
(*   - findRelevantAggregation  (lexical relevance matcher)                *)
(*   - analyzeDataset, aggregateByGroup, pearsonCorrelation                *)
(*   - computeNumericStats, computeCategoricalStats                        *)
(*   - detectColumnTypes, coerceData, addDataset (ingestion)               *)
(*   - buildAnalysisSummaryText  (the text digest of a summary)           *)
(*   - useTamboOrchestration and the DashboardBuilder page                 *)
(*   - DataUpload.processFile and the DataProvider store                   *)
(*   - ThemeProvider                                                       *)
(*                                                                         *)
(* Strings are sequences of one-character strings, so that substring       *)
(* search, splitting and lower-casing are computed, not assumed.           *)
(* Numbers are multiples of one thousandth and are carried in thousandths;  *)
(* reduced values (which the code rounds to two decimals) are carried in   *)
(* hundredths, correlations (rounded to three decimals) in thousandths.    *)
(***************************************************************************)
EXTENDS Integers, Sequences, FiniteSets, TLC

VARIABLES
    pc,          \* position of the run: which operation has been applied
    query,       \* findRelevantAggregation: the query string
    bank,        \* findRelevantAggregation: summary.precomputedAggregations
    matched,     \* findRelevantAggregation: index of the returned aggregation, 0 = null
    data,        \* analyzeDataset: the rows, each a function from column name to cell
    columns,     \* analyzeDataset: the column names, in order
    columnTypes, \* analyzeDataset: column name -> "number" | "string" | "date"
    summary,     \* analyzeDataset: the DataSummary returned
    returned,    \* a statistic helper applied on its own: the call and its return value
    digest,      \* buildAnalysisSummaryText: the text returned
    rawData,     \* addDataset: the parsed rows handed over by the upload
    lenientDates,    \* whether the engine's Date parser accepts digit-only strings
    datasets,        \* DataProvider: the datasets state
    activeDatasetId, \* DataProvider: the activeDatasetId state, 0 = null
    nextId,          \* DataContext: the module-level id counter
    input,           \* DashboardBuilder: the text of the prompt box
    messages,        \* DashboardBuilder: the chat messages
    components,      \* useTamboOrchestration: state.components
    loading,         \* useTamboOrchestration: state.loading
    error,           \* useTamboOrchestration: state.error, a text or null
    explanation,     \* useTamboOrchestration: state.explanation
    pending,         \* orchestrateDashboard calls waiting for their timer, oldest first
    parsing,         \* DataUpload: the parsing state
    parseError,      \* DataUpload: the parseError state, a text or null
    showPanel,       \* DataUpload: the showPanel state
    reads,           \* processFile calls whose file is being read or parsed
    preference,      \* ThemeProvider: the preference state
    resolvedTheme,   \* ThemeProvider: the resolvedTheme state
    systemDark,      \* whether the OS colour scheme is dark
    listening,       \* whether the media-query change handler is registered
    darkClass,       \* whether <html> carries the class "dark"
    stored,          \* localStorage["theme-preference"], "" = absent
    defaultPreference    \* ThemeProvider: the defaultPreference prop

matchVars == <<query, bank, matched>>

analysisVars == <<data, columns, columnTypes, summary, returned, digest>>

storeVars == <<rawData, lenientDates, datasets, activeDatasetId, nextId>>

hookVars == <<input, messages, components, loading, error, explanation, pending>>

uploadVars == <<parsing, parseError, showPanel, reads>>

themeVars == <<preference, resolvedTheme, systemDark, listening, darkClass, stored,
               defaultPreference>>

frontVars == <<hookVars, uploadVars, themeVars>>

vars == <<pc, query, bank, matched, data, columns, columnTypes, summary, returned,
          digest, rawData, lenientDates, datasets, activeDatasetId, nextId,
          input, messages, components, loading, error, explanation, pending,
          parsing, parseError, showPanel, reads,
          preference, resolvedTheme, systemDark, listening, darkClass, stored,
          defaultPreference>>

\* the matcher's variables while another part of the program is looked at
MatchIdle == query = <<>> /\ bank = <<>> /\ matched = 0

AnalysisIdle ==
    /\ data = <<>>
    /\ columns = <<>>
    /\ columnTypes = <<>>
    /\ summary = <<>>
    /\ returned = <<>>
    /\ digest = <<>>

StoreIdle ==
    /\ rawData = <<>>
    /\ lenientDates = FALSE
    /\ datasets = <<>>
    /\ activeDatasetId = 0
    /\ nextId = 1

(***************************************************************************)
(* Strings                                                                 *)
(***************************************************************************)
UpperLetters == <<"A","B","C","D","E","F","G","H","I","J","K","L","M",
                  "N","O","P","Q","R","S","T","U","V","W","X","Y","Z">>

LowerLetters == <<"a","b","c","d","e","f","g","h","i","j","k","l","m",
                  "n","o","p","q","r","s","t","u","v","w","x","y","z">>

toLowerChar(c) ==
    IF \E i \in 1..Len(UpperLetters) : UpperLetters[i] = c
    THEN LowerLetters[CHOOSE i \in 1..Len(UpperLetters) : UpperLetters[i] = c]
    ELSE c

Range(seq) == {seq[i] : i \in 1..Len(seq)}

\* String.prototype.toLowerCase
toLowerCase(s) == [i \in 1..Len(s) |-> toLowerChar(s[i])]

\* String.prototype.includes
includes(s, sub) ==
    \E i \in 0..(Len(s) - Len(sub)) : SubSeq(s, i + 1, i + Len(sub)) = sub

\* the characters the regular expression \s matches, among those used here
isWhitespace(c) == c \in {" ", "\t", "\n"}

RECURSIVE skipWhitespace(_, _)
skipWhitespace(s, i) ==
    IF i <= Len(s) /\ isWhitespace(s[i]) THEN skipWhitespace(s, i + 1) ELSE i

RECURSIVE splitFrom(_, _, _, _)
splitFrom(s, i, cur, acc) ==
    IF i > Len(s) THEN Append(acc, cur)
    ELSE IF isWhitespace(s[i])
         THEN splitFrom(s, skipWhitespace(s, i), <<>>, Append(acc, cur))
         ELSE splitFrom(s, i + 1, Append(cur, s[i]), acc)

\* q.split(/\s+/): a leading or trailing run of whitespace yields an empty word
splitWhitespace(s) == splitFrom(s, 1, <<>>, <<>>)

W_total == <<"t", "o", "t", "a", "l">>
W_sum == <<"s", "u", "m">>
W_average == <<"a", "v", "e", "r", "a", "g", "e">>
W_avg == <<"a", "v", "g">>
W_mean == <<"m", "e", "a", "n">>
T_Total == <<"T", "o", "t", "a", "l", " ">>
T_Average == <<"A", "v", "e", "r", "a", "g", "e", " ">>
T_by == <<" ", "b", "y", " ">>
T_overTime == <<" ", "o", "v", "e", "r", " ", "t", "i", "m", "e", " ", "(", "b", "y", " ">>
T_close == <<")">>

(***************************************************************************)
(* AggregationResult records, as analyzeDataset builds them                *)
(***************************************************************************)
sumAggregation(catCol, numCol, rows) ==
    [description |-> T_Total \o numCol \o T_by \o catCol,
     groupBy |-> catCol, metric |-> numCol, operation |-> "sum", data |-> rows]

meanAggregation(catCol, numCol, rows) ==
    [description |-> T_Average \o numCol \o T_by \o catCol,
     groupBy |-> catCol, metric |-> numCol, operation |-> "mean", data |-> rows]

timeAggregation(dateCol, numCol, rows) ==
    [description |-> numCol \o T_overTime \o dateCol \o T_close,
     groupBy |-> dateCol, metric |-> numCol, operation |-> "sum", data |-> rows]

(***************************************************************************)
(* findRelevantAggregation                                                 *)
(***************************************************************************)
MinWordLength == 3
DirectMatchWeight == 3
DescriptionWordWeight == 1
ColumnWordWeight == 2
OperationHintWeight == 2
MatchThreshold == 3

\* one iteration of the loop over the query's words
wordScore(word, desc, groupLower, metricLower) ==
    IF Len(word) < MinWordLength THEN 0
    ELSE (IF includes(desc, word) THEN DescriptionWordWeight ELSE 0)
         + (IF includes(groupLower, word) THEN ColumnWordWeight ELSE 0)
         + (IF includes(metricLower, word) THEN ColumnWordWeight ELSE 0)

RECURSIVE wordsScore(_, _, _, _, _)
wordsScore(words, k, desc, groupLower, metricLower) ==
    IF k > Len(words) THEN 0
    ELSE wordScore(words[k], desc, groupLower, metricLower)
         + wordsScore(words, k + 1, desc, groupLower, metricLower)

hasSumHint(q) == includes(q, W_total) \/ includes(q, W_sum)

hasMeanHint(q) == includes(q, W_average) \/ includes(q, W_avg) \/ includes(q, W_mean)

\* the score the loop body gives one aggregation; q is the lower-cased query
score(agg, q) ==
    LET desc == toLowerCase(agg.description)
        groupLower == toLowerCase(agg.groupBy)
        metricLower == toLowerCase(agg.metric)
    IN  (IF includes(q, groupLower) THEN DirectMatchWeight ELSE 0)
        + (IF includes(q, metricLower) THEN DirectMatchWeight ELSE 0)
        + wordsScore(splitWhitespace(q), 1, desc, groupLower, metricLower)
        + (IF hasSumHint(q) /\ agg.operation = "sum" THEN OperationHintWeight ELSE 0)
        + (IF hasMeanHint(q) /\ agg.operation = "mean" THEN OperationHintWeight ELSE 0)

\* mutant: a later aggregation of equal score replaces the best one
keepBestOrLater(best, k, s) ==
    IF s >= best.score THEN [score |-> s, agg |-> k] ELSE best

\* mutant: bestScore is never raised
keepBestStaleScore(best, k, s) ==
    IF s > best.score THEN [score |-> best.score, agg |-> k] ELSE best

\* if (score > bestScore) { bestScore = score; bestAgg = agg; }
keepBest(best, k, s) ==
    IF s > best.score THEN [score |-> s, agg |-> k] ELSE best

RECURSIVE scanBank(_, _, _, _)
scanBank(aggs, q, k, best) ==
    IF k > Len(aggs) THEN best
    ELSE scanBank(aggs, q, k + 1, keepBest(best, k, score(aggs[k], q)))

\* mutant: the score must exceed the threshold
acceptBestStrict(best) == IF best.score > MatchThreshold THEN best.agg ELSE 0

\* mutant: any positive score is accepted
acceptBestAnyScore(best) == IF best.score >= 1 THEN best.agg ELSE 0

\* return bestScore >= 3 ? bestAgg : null
acceptBest(best) == IF best.score >= MatchThreshold THEN best.agg ELSE 0

\* the index in aggs of the aggregation returned, 0 for null
findRelevantAggregation(aggs, queryText) ==
    acceptBest(scanBank(aggs, toLowerCase(queryText), 1, [score |-> 0, agg |-> 0]))


(***************************************************************************)
(* Cells: the scalar values a row holds                                    *)
(***************************************************************************)
Null == [t |-> "null", n |-> 0, s |-> <<>>]

\* what row[col] gives for a key the row does not have
Undefined == [t |-> "undefined", n |-> 0, s |-> <<>>]

NaN == [t |-> "nan", n |-> 0, s |-> <<>>]

\* a number cell holds its value in thousandths
UnitsPerOne == 10 * 100

\* the number v / 1000
Thousandths(v) == [t |-> "number", n |-> v, s |-> <<>>]

\* the integer v
Num(v) == Thousandths(UnitsPerOne * v)

Str(chars) == [t |-> "string", n |-> 0, s |-> chars]

\* the orchestration hook, the upload widget and the theme provider while
\* another part of the program is looked at
HookIdle ==
    /\ input = <<>>
    /\ messages = <<>>
    /\ components = <<>>
    /\ loading = FALSE
    /\ error = Null
    /\ explanation = <<>>
    /\ pending = <<>>

UploadIdle ==
    /\ parsing = FALSE
    /\ parseError = Null
    /\ showPanel = FALSE
    /\ reads = <<>>

ThemeIdle ==
    /\ preference = "system"
    /\ resolvedTheme = "light"
    /\ systemDark = FALSE
    /\ listening = FALSE
    /\ darkClass = FALSE
    /\ stored = ""
    /\ defaultPreference = "system"

FrontIdle == HookIdle /\ UploadIdle /\ ThemeIdle

\* row[col]
cell(row, col) == IF col \in DOMAIN row THEN row[col] ELSE Undefined

\* typeof v === "number" && !isNaN(v)
isValidNumber(v) == v.t = "number"

\* v == null
isNullish(v) == v.t \in {"null", "undefined"}

DigitChars == <<"0", "1", "2", "3", "4", "5", "6", "7", "8", "9">>

RECURSIVE digitsOf(_)
digitsOf(v) ==
    IF v < 10 THEN <<DigitChars[v + 1]>>
    ELSE Append(digitsOf(v \div 10), DigitChars[(v % 10) + 1])

\* String(v) of an integer
numberToString(v) == IF v < 0 THEN <<"-">> \o digitsOf(-v) ELSE digitsOf(v)

\* the decimals of f thousandths, 0 < f < 1000, without trailing zeros
fractionDigits(f) ==
    LET all == <<DigitChars[(f \div 100) + 1], DigitChars[((f \div 10) % 10) + 1],
                 DigitChars[(f % 10) + 1]>>
    IN  IF f % 10 # 0 THEN all
        ELSE IF f % 100 # 0 THEN SubSeq(all, 1, 2)
        ELSE SubSeq(all, 1, 1)

\* String(v) of a number of v thousandths
decimalToString(v) ==
    LET a == IF v < 0 THEN -v ELSE v
        whole == (IF v < 0 THEN <<"-">> ELSE <<>>) \o digitsOf(a \div UnitsPerOne)
    IN  IF a % UnitsPerOne = 0 THEN whole
        ELSE whole \o <<".">> \o fractionDigits(a % UnitsPerOne)

W_Unknown == <<"U", "n", "k", "n", "o", "w", "n">>
W_NaN == <<"N", "a", "N">>

\* String(v) of a cell that is neither null nor undefined
cellToString(v) ==
    CASE v.t = "string" -> v.s
      [] v.t = "number" -> decimalToString(v.n)
      [] v.t = "nan" -> W_NaN

\* String(row[groupCol] ?? "Unknown")
groupKey(v) == IF isNullish(v) THEN W_Unknown ELSE cellToString(v)

(***************************************************************************)
(* String.prototype.localeCompare, for strings of spaces, hyphens, digits  *)
(* and letters: spaces and punctuation sort before digits, digits before   *)
(* letters, and letters differing only in case sort lower case first       *)
(***************************************************************************)
CollationOrder == <<" ", "-", ".", "(", ")">> \o DigitChars \o LowerLetters

primaryRank(c) ==
    CHOOSE i \in 1..Len(CollationOrder) : CollationOrder[i] = toLowerChar(c)

RECURSIVE comparePrimary(_, _, _)
comparePrimary(a, b, i) ==
    IF i > Len(a) /\ i > Len(b) THEN 0
    ELSE IF i > Len(a) THEN -1
    ELSE IF i > Len(b) THEN 1
    ELSE IF primaryRank(a[i]) < primaryRank(b[i]) THEN -1
    ELSE IF primaryRank(a[i]) > primaryRank(b[i]) THEN 1
    ELSE comparePrimary(a, b, i + 1)

RECURSIVE compareCase(_, _, _)
compareCase(a, b, i) ==
    IF i > Len(a) THEN 0
    ELSE IF a[i] = b[i] THEN compareCase(a, b, i + 1)
    ELSE IF a[i] = toLowerChar(a[i]) THEN -1 ELSE 1

localeCompare(a, b) ==
    LET p == comparePrimary(a, b, 1)
    IN  IF p # 0 THEN p ELSE compareCase(a, b, 1)

(***************************************************************************)
(* aggregateByGroup                                                        *)
(***************************************************************************)
\* values[lo] + ... + values[hi], by halves
RECURSIVE sumRange(_, _, _)
sumRange(values, lo, hi) ==
    IF lo > hi THEN 0
    ELSE IF lo = hi THEN values[lo]
    ELSE LET mid == (lo + hi) \div 2
         IN  sumRange(values, lo, mid) + sumRange(values, mid + 1, hi)

\* values.reduce((s, v) => s + v, 0)
sumOf(values) == sumRange(values, 1, Len(values))

\* Math.round(x * 100) for x = total / count, total in thousandths and
\* count > 0: the nearest integer, a half rounded towards plus infinity
roundedHundredths(total, count) == (total + 5 * count) \div (10 * count)

\* mutant: every row starts a group of its own
hasGroupNever(groups, key) == FALSE

\* groups.has(key)
hasGroup(groups, key) == \E g \in 1..Len(groups) : groups[g].key = key

groupIndex(groups, key) == CHOOSE g \in 1..Len(groups) : groups[g].key = key

\* mutant: a cell that is not a valid number is collected as 0
collectInvalidAsZero(groups, key, val) ==
    LET g == groupIndex(groups, key)
    IN  [groups EXCEPT ![g].values = Append(@, IF isValidNumber(val) THEN val.n ELSE 0)]

\* if (typeof val === "number" && !isNaN(val)) groups.get(key).push(val)
collect(groups, key, val) ==
    IF isValidNumber(val)
    THEN LET g == groupIndex(groups, key)
         IN  [groups EXCEPT ![g].values = Append(@, val.n)]
    ELSE groups

\* x put into the sorted rows after the leading rows that stay before it
insertAfter(sorted, x, staysBefore) ==
    LET n == Cardinality({k \in 1..Len(sorted) : \A j \in 1..k : staysBefore[j]})
    IN  SubSeq(sorted, 1, n) \o <<x>> \o SubSeq(sorted, n + 1, Len(sorted))

\* the element of a set of one element; a loop over a range is taken by
\* halves, and the value left by the first half is the element that the
\* second half starts from
only(S) == CHOOSE v \in S : TRUE

\* one iteration of the loop over the rows; groups is the Map, in insertion order
addRowToGroups(groups, row, groupCol, valueCol) ==
    LET key == groupKey(cell(row, groupCol))
        withKey == IF hasGroup(groups, key) THEN groups
                   ELSE Append(groups, [key |-> key, values |-> <<>>])
    IN  collect(withKey, key, cell(row, valueCol))

\* data.forEach(...) over rows lo..hi in order, the range taken by halves
RECURSIVE groupRows(_, _, _, _, _, _)
groupRows(rows, lo, hi, groupCol, valueCol, groups) ==
    IF lo > hi THEN groups
    ELSE IF lo = hi THEN addRowToGroups(groups, rows[lo], groupCol, valueCol)
    ELSE LET mid == (lo + hi) \div 2
         IN  only({groupRows(rows, mid + 1, hi, groupCol, valueCol, firstHalf) :
                      firstHalf \in {groupRows(rows, lo, mid, groupCol, valueCol, groups)}})

\* the reduced value of one group, rounded to 2 decimals, in hundredths
reduce(values, operation) ==
    CASE operation = "sum" -> roundedHundredths(sumOf(values), 1)
      [] operation = "mean" ->
            IF Len(values) > 0 THEN roundedHundredths(sumOf(values), Len(values)) ELSE 0
      [] operation = "count" -> 100 * Len(values)

\* { [groupCol]: name, [valueCol]: Math.round(result * 100) / 100 }
reducedRow(group, operation) ==
    [key |-> group.key, value |-> reduce(group.values, operation)]

\* mutant: a row is put before the rows of equal value
insertBeforeEqualValues(sorted, x) ==
    insertAfter(sorted, x, [k \in 1..Len(sorted) |-> sorted[k].value > x.value])

\* the place of row x in the sorted rows: after the rows of greater or equal value
insertByValueDescending(sorted, x) ==
    insertAfter(sorted, x, [k \in 1..Len(sorted) |-> sorted[k].value >= x.value])

\* .sort((a, b) => b[valueCol] - a[valueCol]); Array.prototype.sort is stable
RECURSIVE sortByValueDescending(_, _, _, _)
sortByValueDescending(rows, lo, hi, sorted) ==
    IF lo > hi THEN sorted
    ELSE IF lo = hi THEN insertByValueDescending(sorted, rows[lo])
    ELSE LET mid == (lo + hi) \div 2
         IN  only({sortByValueDescending(rows, mid + 1, hi, firstHalf) :
                      firstHalf \in {sortByValueDescending(rows, lo, mid, sorted)}})

aggregateByGroup(rows, groupCol, valueCol, operation) ==
    LET groups == groupRows(rows, 1, Len(rows), groupCol, valueCol, <<>>)
        reduced == [g \in 1..Len(groups) |-> reducedRow(groups[g], operation)]
    IN  sortByValueDescending(reduced, 1, Len(reduced), <<>>)

insertByKeyAscending(sorted, x) ==
    insertAfter(sorted, x,
                [k \in 1..Len(sorted) |-> localeCompare(sorted[k].key, x.key) <= 0])

RECURSIVE sortByKeyFrom(_, _, _, _)
sortByKeyFrom(rows, lo, hi, sorted) ==
    IF lo > hi THEN sorted
    ELSE IF lo = hi THEN insertByKeyAscending(sorted, rows[lo])
    ELSE LET mid == (lo + hi) \div 2
         IN  only({sortByKeyFrom(rows, mid + 1, hi, firstHalf) :
                      firstHalf \in {sortByKeyFrom(rows, lo, mid, sorted)}})

\* mutant: the rows keep the aggregator's order
sortByKeyOmitted(rows) == rows

\* sumData.sort((a, b) => String(a[dateCol]).localeCompare(String(b[dateCol])))
sortByKey(rows) == sortByKeyFrom(rows, 1, Len(rows), <<>>)


(***************************************************************************)
(* Natural numbers beyond the range of the model checker's integers, as    *)
(* little-endian sequences of limbs: the sums of squares of the Pearson    *)
(* correlation are compared exactly                                        *)
(***************************************************************************)
LimbBase == 100 * 100

RECURSIVE bigOf(_)
bigOf(v) == IF v < LimbBase THEN <<v>> ELSE <<v % LimbBase>> \o bigOf(v \div LimbBase)

RECURSIVE bigAdd(_, _, _)
bigAdd(a, b, carry) ==
    IF a = <<>> /\ b = <<>> THEN (IF carry = 0 THEN <<>> ELSE <<carry>>)
    ELSE LET x == IF a = <<>> THEN 0 ELSE Head(a)
             y == IF b = <<>> THEN 0 ELSE Head(b)
             t == x + y + carry
         IN  <<t % LimbBase>> \o bigAdd(IF a = <<>> THEN <<>> ELSE Tail(a),
                                        IF b = <<>> THEN <<>> ELSE Tail(b),
                                        t \div LimbBase)

RECURSIVE bigTimesLimb(_, _, _)
bigTimesLimb(a, m, carry) ==
    IF a = <<>> THEN (IF carry = 0 THEN <<>> ELSE <<carry>>)
    ELSE LET t == Head(a) * m + carry
         IN  <<t % LimbBase>> \o bigTimesLimb(Tail(a), m, t \div LimbBase)

RECURSIVE bigTimes(_, _)
bigTimes(a, b) ==
    IF b = <<>> THEN <<>>
    ELSE bigAdd(bigTimesLimb(a, Head(b), 0), <<0>> \o bigTimes(a, Tail(b)), 0)

RECURSIVE bigTrim(_)
bigTrim(a) ==
    IF a # <<>> /\ a[Len(a)] = 0 THEN bigTrim(SubSeq(a, 1, Len(a) - 1)) ELSE a

RECURSIVE bigLessEqFrom(_, _, _)
bigLessEqFrom(a, b, i) ==
    IF i = 0 THEN TRUE
    ELSE IF a[i] # b[i] THEN a[i] < b[i]
    ELSE bigLessEqFrom(a, b, i - 1)

bigLessEq(a, b) ==
    LET x == bigTrim(a)
        y == bigTrim(b)
    IN  IF Len(x) # Len(y) THEN Len(x) < Len(y) ELSE bigLessEqFrom(x, y, Len(x))

absOf(v) == IF v < 0 THEN -v ELSE v

(***************************************************************************)
(* pearsonCorrelation                                                      *)
(***************************************************************************)
MinPairedSamples == 3
CorrelationScale == 1000

RECURSIVE gcd(_, _)
gcd(a, b) == IF b = 0 THEN a ELSE gcd(b, a % b)

\* the greatest common divisor of |d[lo]|, ..., |d[hi]|, 0 if there is none
RECURSIVE gcdRange(_, _, _)
gcdRange(d, lo, hi) ==
    IF lo > hi THEN 0
    ELSE IF lo = hi THEN absOf(d[lo])
    ELSE LET mid == (lo + hi) \div 2
         IN  gcd(gcdRange(d, lo, mid), gcdRange(d, mid + 1, hi))

gcdOf(d) == gcdRange(d, 1, Len(d))

\* the deviations from the mean, times the number of samples and divided by
\* their common factor: the ratio the correlation is does not change when
\* the deviations of one variable are all scaled alike
deviations(x) ==
    LET total == sumOf(x)
        d == [i \in 1..Len(x) |-> Len(x) * x[i] - total]
        g == gcdOf(d)
    IN  IF g = 0 THEN d ELSE [i \in 1..Len(d) |-> d[i] \div g]

\* a[i] * b[i] + ... + a[Len(a)] * b[Len(a)]
sumOfProducts(a, b, i) == sumOf([k \in 1..(Len(a) - i + 1) |-> a[k + i - 1] * b[k + i - 1]])

\* whether k - 1/2 <= 1000 * numerator / sqrt(denomX * denomY), for denomX * denomY > 0
roundsToAtLeast(k, numerator, denomX, denomY) ==
    LET a == 2 * k - 1
        b == numerator
        lhs == bigTimes(bigTimes(bigOf(a * a), bigOf(denomX)), bigOf(denomY))
        rhs == bigTimes(bigTimes(bigOf(2 * CorrelationScale), bigOf(2 * CorrelationScale)),
                        bigTimes(bigOf(absOf(b)), bigOf(absOf(b))))
    IN  IF a <= 0 /\ b >= 0 THEN TRUE
        ELSE IF a > 0 /\ b < 0 THEN FALSE
        ELSE IF a > 0 THEN bigLessEq(lhs, rhs)
        ELSE bigLessEq(rhs, lhs)

\* the largest k in lo..hi with roundsToAtLeast(k, ...), which holds of lo
RECURSIVE roundedRatio(_, _, _, _, _)
roundedRatio(lo, hi, numerator, denomX, denomY) ==
    IF lo = hi THEN lo
    ELSE LET mid == (lo + hi + 1) \div 2
         IN  IF roundsToAtLeast(mid, numerator, denomX, denomY)
             THEN roundedRatio(mid, hi, numerator, denomX, denomY)
             ELSE roundedRatio(lo, mid - 1, numerator, denomX, denomY)

\* the loop and the rounded ratio: 0 if denom === 0 (which the NaN means of
\* no samples give as well)
correlationOfSamples(x, y) ==
    LET dx == deviations(x)
        dy == deviations(y)
        numerator == sumOfProducts(dx, dy, 1)
        denomX == sumOfProducts(dx, dx, 1)
        denomY == sumOfProducts(dy, dy, 1)
    IN  IF denomX = 0 \/ denomY = 0 THEN 0
        ELSE roundedRatio(-CorrelationScale, CorrelationScale, numerator, denomX, denomY)

\* mutant: no minimum number of samples
pearsonCorrelationNoMinimum(x, y) == correlationOfSamples(x, y)

\* the correlation rounded to 3 decimals, in thousandths
pearsonCorrelation(x, y) ==
    IF Len(x) < MinPairedSamples THEN 0 ELSE correlationOfSamples(x, y)

\* seq.slice(0, n)
firstN(seq, n) == SubSeq(seq, 1, IF Len(seq) < n THEN Len(seq) ELSE n)

(***************************************************************************)
(* computeNumericStats.  min and max are reported as they are, in          *)
(* thousandths; mean, median, sum and stdDev are rounded to 2 decimals and *)
(* are in hundredths.                                                      *)
(***************************************************************************)
\* data.map((row) => row[column]).filter((v) => typeof v === "number" && !isNaN(v))
numericValues(rows, column) ==
    LET cells == [i \in 1..Len(rows) |-> cell(rows[i], column)]
        valid == SelectSeq(cells, isValidNumber)
    IN  [i \in 1..Len(valid) |-> valid[i].n]

\* [...values].sort((a, b) => a - b)[k - 1]: the value of rank k
sortedAt(values, k) ==
    CHOOSE v \in Range(values) :
        /\ Cardinality({i \in 1..Len(values) : values[i] < v}) < k
        /\ k <= Cardinality({i \in 1..Len(values) : values[i] <= v})

\* the median, rounded, for at least one value
roundedMedian(values) ==
    LET n == Len(values)
    IN  IF n % 2 = 0
        THEN roundedHundredths(sortedAt(values, n \div 2) + sortedAt(values, (n \div 2) + 1), 2)
        ELSE roundedHundredths(sortedAt(values, (n \div 2) + 1), 1)

\* d[lo]^2 + ... + d[hi]^2, by halves
RECURSIVE sumOfSquares(_, _, _)
sumOfSquares(d, lo, hi) ==
    IF lo > hi THEN <<>>
    ELSE IF lo = hi THEN bigTimes(bigOf(absOf(d[lo])), bigOf(absOf(d[lo])))
    ELSE LET mid == (lo + hi) \div 2
         IN  bigAdd(sumOfSquares(d, lo, mid), sumOfSquares(d, mid + 1, hi), 0)

\* whether h - 1/2 <= 100 * Math.sqrt(variance), where variance is
\* squares / n^3 (squares: the sum of the squares of n * v - sum) and the
\* values are in thousandths: 25 * n^3 * (2h - 1)^2 <= squares
stdDevAtLeast(h, n, squares) ==
    \/ h <= 0
    \/ bigLessEq(bigTimes(bigOf(25 * n * n * n), bigOf((2 * h - 1) * (2 * h - 1))), squares)

\* the largest h in lo..hi with stdDevAtLeast(h, ...), which holds of lo
RECURSIVE roundedRoot(_, _, _, _)
roundedRoot(lo, hi, n, squares) ==
    IF lo = hi THEN lo
    ELSE LET mid == (lo + hi + 1) \div 2
         IN  IF stdDevAtLeast(mid, n, squares)
             THEN roundedRoot(mid, hi, n, squares)
             ELSE roundedRoot(lo, mid - 1, n, squares)

\* Math.round(Math.sqrt(variance) * 100); the deviation is at most max - min
roundedStdDev(values) ==
    LET n == Len(values)
        total == sumOf(values)
        d == [i \in 1..n |-> n * values[i] - total]
        spread == sortedAt(values, n) - sortedAt(values, 1)
    IN  roundedRoot(0, (spread \div 10) + 1, n, sumOfSquares(d, 1, n))

\* the object returned for at least one value
numericFields(values) ==
    [min |-> sortedAt(values, 1),
     max |-> sortedAt(values, Len(values)),
     mean |-> roundedHundredths(sumOf(values), Len(values)),
     median |-> roundedMedian(values),
     sum |-> roundedHundredths(sumOf(values), 1),
     stdDev |-> roundedStdDev(values)]

\* {}
EmptyObject == [f \in {} |-> 0]

\* mutant: the statistics of no value are all 0
computeNumericStatsZeroDefault(rows, column) ==
    LET values == numericValues(rows, column)
    IN  IF Len(values) = 0
        THEN [min |-> 0, max |-> 0, mean |-> 0, median |-> 0, sum |-> 0, stdDev |-> 0]
        ELSE numericFields(values)

computeNumericStats(rows, column) ==
    LET values == numericValues(rows, column)
    IN  IF Len(values) = 0 THEN EmptyObject ELSE numericFields(values)

(***************************************************************************)
(* computeCategoricalStats                                                 *)
(***************************************************************************)
MaxTopValues == 10

W_null == <<"n", "u", "l", "l">>

\* String(row[column] ?? "null")
frequencyKey(v) == IF isNullish(v) THEN W_null ELSE cellToString(v)

\* counts.set(val, (counts.get(val) ?? 0) + 1); counts is the Map, in insertion order
countValue(counts, val) ==
    IF \E k \in 1..Len(counts) : counts[k].value = val
    THEN LET k == CHOOSE k \in 1..Len(counts) : counts[k].value = val
         IN  [counts EXCEPT ![k].count = @ + 1]
    ELSE Append(counts, [value |-> val, count |-> 1])

RECURSIVE countRows(_, _, _, _, _)
countRows(rows, lo, hi, column, counts) ==
    IF lo > hi THEN counts
    ELSE IF lo = hi THEN countValue(counts, frequencyKey(cell(rows[lo], column)))
    ELSE LET mid == (lo + hi) \div 2
         IN  only({countRows(rows, mid + 1, hi, column, firstHalf) :
                      firstHalf \in {countRows(rows, lo, mid, column, counts)}})

\* mutant: an entry is put before the entries of equal count
insertBeforeEqualCounts(sorted, x) ==
    insertAfter(sorted, x, [k \in 1..Len(sorted) |-> sorted[k].count > x.count])

\* the place of entry x in the sorted entries: after the entries of greater or equal count
insertByCountDescending(sorted, x) ==
    insertAfter(sorted, x, [k \in 1..Len(sorted) |-> sorted[k].count >= x.count])

\* .sort((a, b) => b[1] - a[1]); Array.prototype.sort is stable
RECURSIVE sortByCountDescending(_, _, _, _)
sortByCountDescending(entries, lo, hi, sorted) ==
    IF lo > hi THEN sorted
    ELSE IF lo = hi THEN insertByCountDescending(sorted, entries[lo])
    ELSE LET mid == (lo + hi) \div 2
         IN  only({sortByCountDescending(entries, mid + 1, hi, firstHalf) :
                      firstHalf \in {sortByCountDescending(entries, lo, mid, sorted)}})

computeCategoricalStats(rows, column) ==
    LET counts == countRows(rows, 1, Len(rows), column, <<>>)
    IN  firstN(sortByCountDescending(counts, 1, Len(counts), <<>>), MaxTopValues)

(***************************************************************************)
(* analyzeDataset                                                          *)
(***************************************************************************)
MaxCategoricalColumns == 4
MaxCategories == 20
MaxAggregatedNumericColumns == 6
MaxDateColumns == 2
MaxTimeSeriesNumericColumns == 4
MaxCorrelatedColumns == 5
MaxScatterPoints == 100

\* columnTypes[c]: "undefined" for a column the mapping does not have
typeOf(types, col) == IF col \in DOMAIN types THEN types[col] ELSE "undefined"

\* columns.filter((c) => columnTypes[c] === type)
columnsOfType(cols, types, type) ==
    SelectSeq(cols, LAMBDA c : typeOf(types, c) = type)

\* columnTypes[col] || "string"
statsType(types, col) ==
    IF typeOf(types, col) = "undefined" THEN "string" ELSE types[col]

\* new Set(data.map((row) => row[col]))
uniqueValues(rows, col) == {cell(rows[i], col) : i \in 1..Len(rows)}

\* row[col] == null || row[col] === ""
isMissing(v) == isNullish(v) \/ (v.t = "string" /\ v.s = <<>>)

\* the order of the UTF-16 code units of the characters of cells
CodeUnitOrder == <<" ", "(", ")", "-", ".">> \o DigitChars \o UpperLetters \o LowerLetters

codeUnitRank(c) == CHOOSE i \in 1..Len(CodeUnitOrder) : CodeUnitOrder[i] = c

\* whether string a sorts before or with string b in the default sort order
RECURSIVE codeUnitsLessEq(_, _, _)
codeUnitsLessEq(a, b, i) ==
    IF i > Len(a) THEN TRUE
    ELSE IF i > Len(b) THEN FALSE
    ELSE IF a[i] # b[i] THEN codeUnitRank(a[i]) < codeUnitRank(b[i])
    ELSE codeUnitsLessEq(a, b, i + 1)

\* data.map((row) => row[col]).filter((v) => v != null).sort(): the string
\* forms of the first and of the last element, undefined if there is none
dateRangeOf(rows, col) ==
    LET dates == {cellToString(cell(rows[i], col)) :
                     i \in {i \in 1..Len(rows) : ~isNullish(cell(rows[i], col))}}
    IN  IF dates = {} THEN Undefined
        ELSE [earliest |-> CHOOSE a \in dates : \A b \in dates : codeUnitsLessEq(a, b, 1),
              latest |-> CHOOSE a \in dates : \A b \in dates : codeUnitsLessEq(b, a, 1)]

baseStatsOf(rows, types, col) ==
    [column |-> col,
     type |-> statsType(types, col),
     uniqueCount |-> Cardinality(uniqueValues(rows, col)),
     nullCount |-> Cardinality({i \in 1..Len(rows) : isMissing(cell(rows[i], col))})]

\* { ...base, ...numStats }, { ...base, topValues } or { ...base, dateRange }
columnStatsOf(rows, types, col) ==
    LET base == baseStatsOf(rows, types, col)
    IN  CASE base.type = "number" -> computeNumericStats(rows, col) @@ base
          [] base.type = "string" ->
                [topValues |-> computeCategoricalStats(rows, col)] @@ base
          [] base.type = "date" -> [dateRange |-> dateRangeOf(rows, col)] @@ base
          [] OTHER -> base

\* mutant: no column has too many categories
tooManyCategoriesNever(rows, catCol) == FALSE

\* mutant: the cardinality guard is off by one
tooManyCategoriesOffByOne(rows, catCol) ==
    Cardinality(uniqueValues(rows, catCol)) >= MaxCategories

\* if (uniqueCats.size > 20) continue
tooManyCategories(rows, catCol) ==
    Cardinality(uniqueValues(rows, catCol)) > MaxCategories

\* mutant: the Mean aggregation of a pair is pushed before its Sum
categoricalPairMeanFirst(rows, catCol, numCol) ==
    << meanAggregation(catCol, numCol, aggregateByGroup(rows, catCol, numCol, "mean")),
       sumAggregation(catCol, numCol, aggregateByGroup(rows, catCol, numCol, "sum")) >>

\* the body of the inner loop: the Sum and then the Mean aggregation of one pair
categoricalPair(rows, catCol, numCol) ==
    << sumAggregation(catCol, numCol, aggregateByGroup(rows, catCol, numCol, "sum")),
       meanAggregation(catCol, numCol, aggregateByGroup(rows, catCol, numCol, "mean")) >>

RECURSIVE categoricalInner(_, _, _, _)
categoricalInner(rows, catCol, numCols, j) ==
    IF j > Len(numCols) THEN <<>>
    ELSE categoricalPair(rows, catCol, numCols[j])
         \o categoricalInner(rows, catCol, numCols, j + 1)

RECURSIVE categoricalAggregations(_, _, _, _)
categoricalAggregations(rows, catCols, numCols, i) ==
    IF i > Len(catCols) THEN <<>>
    ELSE (IF tooManyCategories(rows, catCols[i]) THEN <<>>
          ELSE categoricalInner(rows, catCols[i], numCols, 1))
         \o categoricalAggregations(rows, catCols, numCols, i + 1)

timeSeries(rows, dateCol, numCol) ==
    timeAggregation(dateCol, numCol,
                    sortByKey(aggregateByGroup(rows, dateCol, numCol, "sum")))

RECURSIVE dateAggregations(_, _, _, _, _)
dateAggregations(rows, dateCols, numCols, i, j) ==
    IF i > Len(dateCols) THEN <<>>
    ELSE IF j > Len(numCols) THEN dateAggregations(rows, dateCols, numCols, i + 1, 1)
    ELSE <<timeSeries(rows, dateCols[i], numCols[j])>>
         \o dateAggregations(rows, dateCols, numCols, i, j + 1)

\* data.filter(both cells valid numbers).map((row) => ({x, y}))
pairedSamples(rows, xCol, yCol) ==
    LET both == SelectSeq(rows, LAMBDA row :
                    isValidNumber(cell(row, xCol)) /\ isValidNumber(cell(row, yCol)))
    IN  [i \in 1..Len(both) |-> [x |-> cell(both[i], xCol).n, y |-> cell(both[i], yCol).n]]

\* mutant: every paired sample is kept
scatterDataUnbounded(paired) == paired

\* paired.slice(0, 100)
scatterData(paired) == firstN(paired, MaxScatterPoints)

correlationResult(xCol, yCol, paired) ==
    [xColumn |-> xCol,
     yColumn |-> yCol,
     correlation |-> pearsonCorrelation([i \in 1..Len(paired) |-> paired[i].x],
                                        [i \in 1..Len(paired) |-> paired[i].y]),
     scatterData |-> scatterData(paired)]

\* mutant: a pair is reported whatever its number of paired samples
enoughSamplesAlways(paired) == TRUE

\* if (paired.length >= 3)
enoughSamples(paired) == Len(paired) >= MinPairedSamples

\* the body of the inner loop over the pairs of numeric columns
correlationOfPair(rows, xCol, yCol) ==
    LET paired == pairedSamples(rows, xCol, yCol)
    IN  IF enoughSamples(paired) THEN <<correlationResult(xCol, yCol, paired)>> ELSE <<>>

\* let j = i + 1
firstPartner(i) == i + 1

\* for (i = 0; i < length && i < 5; i++) for (j = i + 1; j < length && j < 5; j++)
RECURSIVE correlationsFrom(_, _, _, _)
correlationsFrom(rows, numCols, i, j) ==
    IF i > Len(numCols) \/ i > MaxCorrelatedColumns THEN <<>>
    ELSE IF j > Len(numCols) \/ j > MaxCorrelatedColumns
         THEN correlationsFrom(rows, numCols, i + 1, firstPartner(i + 1))
         ELSE correlationOfPair(rows, numCols[i], numCols[j])
              \o correlationsFrom(rows, numCols, i, j + 1)

analyzeDataset(rows, cols, types) ==
    LET numericColumns == columnsOfType(cols, types, "number")
        categoricalColumns == columnsOfType(cols, types, "string")
        dateColumns == columnsOfType(cols, types, "date")
    IN  [rowCount |-> Len(rows),
         columnCount |-> Len(cols),
         columns |-> cols,
         columnTypes |-> types,
         columnStats |-> [c \in 1..Len(cols) |-> columnStatsOf(rows, types, cols[c])],
         categoricalColumns |-> categoricalColumns,
         numericColumns |-> numericColumns,
         dateColumns |-> dateColumns,
         precomputedAggregations |->
            categoricalAggregations(rows,
                firstN(categoricalColumns, MaxCategoricalColumns),
                firstN(numericColumns, MaxAggregatedNumericColumns), 1)
            \o dateAggregations(rows,
                firstN(dateColumns, MaxDateColumns),
                firstN(numericColumns, MaxTimeSeriesNumericColumns), 1, 1),
         correlations |-> correlationsFrom(rows, numericColumns, 1, firstPartner(1))]


(***************************************************************************)
(* buildAnalysisSummaryText                                                *)
(***************************************************************************)
MaxDigestTopValues == 5
MaxDigestCorrelations == 5
MaxDigestAggregations == 20
StrongThreshold == 700
ModerateThreshold == 400

T_overview == <<"#", "#", " ", "D", "a", "t", "a", "s", "e", "t", " ", "O", "v", "e", "r", "v", "i", "e", "w">>
T_dash == <<"-", " ">>
T_rowsBy == <<" ", "r", "o", "w", "s", " ", "×", " ">>
T_columns == <<" ", "c", "o", "l", "u", "m", "n", "s">>
T_numericColumns == <<"-", " ", "N", "u", "m", "e", "r", "i", "c", " ", "c", "o", "l", "u", "m", "n", "s", ":", " ">>
T_categoricalColumns == <<"-", " ", "C", "a", "t", "e", "g", "o", "r", "i", "c", "a", "l", " ", "c", "o", "l", "u", "m", "n", "s", ":", " ">>
T_dateColumns == <<"-", " ", "D", "a", "t", "e", " ", "c", "o", "l", "u", "m", "n", "s", ":", " ">>
T_none == <<"n", "o", "n", "e">>
T_comma == <<",", " ">>
T_statistics == <<"#", "#", " ", "C", "o", "l", "u", "m", "n", " ", "S", "t", "a", "t", "i", "s", "t", "i", "c", "s">>
T_bold == <<"-", " ", "*", "*">>
T_numeric == <<"*", "*", " ", "(", "n", "u", "m", "e", "r", "i", "c", ")", ":", " ", "m", "i", "n", "=">>
T_max == <<",", " ", "m", "a", "x", "=">>
T_mean == <<",", " ", "m", "e", "a", "n", "=">>
T_median == <<",", " ", "m", "e", "d", "i", "a", "n", "=">>
T_sum == <<",", " ", "s", "u", "m", "=">>
T_stdDev == <<",", " ", "s", "t", "d", "D", "e", "v", "=">>
T_categorical == <<"*", "*", " ", "(", "c", "a", "t", "e", "g", "o", "r", "i", "c", "a", "l", ",", " ">>
T_unique == <<" ", "u", "n", "i", "q", "u", "e", ")", ":", " ", "t", "o", "p", " ", "v", "a", "l", "u", "e", "s", " ", "=", " ">>
T_date == <<"*", "*", " ", "(", "d", "a", "t", "e", ")", ":", " ", "r", "a", "n", "g", "e", " ">>
T_to == <<" ", "t", "o", " ">>
T_undefined == <<"u", "n", "d", "e", "f", "i", "n", "e", "d">>
T_correlations == <<"#", "#", " ", "N", "o", "t", "a", "b", "l", "e", " ", "C", "o", "r", "r", "e", "l", "a", "t", "i", "o", "n", "s">>
T_vs == <<" ", "v", "s", " ">>
T_r == <<":", " ", "r", "=">>
T_open == <<" ", "(">>
T_strong == <<"s", "t", "r", "o", "n", "g">>
T_moderate == <<"m", "o", "d", "e", "r", "a", "t", "e">>
T_weak == <<"w", "e", "a", "k">>
T_positive == <<"p", "o", "s", "i", "t", "i", "v", "e">>
T_negative == <<"n", "e", "g", "a", "t", "i", "v", "e">>
T_aggregations == <<"#", "#", " ", "A", "v", "a", "i", "l", "a", "b", "l", "e", " ", "P", "r", "e", "-", "C", "o", "m", "p", "u", "t", "e", "d", " ", "A", "g", "g", "r", "e", "g", "a", "t", "i", "o", "n", "s">>
T_quote == <<"-", " ", "\"">>
T_groups == <<" ", "g", "r", "o", "u", "p", "s", " ", "(", "e", ".", "g", ".", ",", " ">>
T_quoteColon == <<"\"", ":", " ">>
T_newline == <<"\n">>

\* parts[lo] \o ... \o parts[hi], by halves
RECURSIVE concatRange(_, _, _)
concatRange(parts, lo, hi) ==
    IF lo > hi THEN <<>>
    ELSE IF lo = hi THEN parts[lo]
    ELSE LET mid == (lo + hi) \div 2
         IN  concatRange(parts, lo, mid) \o concatRange(parts, mid + 1, hi)

\* items.join(separator)
join(items, separator) ==
    concatRange([k \in 1..(2 * Len(items) - 1) |->
                    IF k % 2 = 1 THEN items[(k + 1) \div 2] ELSE separator],
                1, 2 * Len(items) - 1)

\* cols.join(", ") || "none"
listOrNone(cols) == IF join(cols, T_comma) = <<>> THEN T_none ELSE join(cols, T_comma)

\* `${n}` of a value in hundredths
hundredthsToString(v) == decimalToString(10 * v)

\* `${stat[field]}`: "undefined" for a field the entry does not have
statText(stat, field) ==
    IF field \notin DOMAIN stat THEN T_undefined
    ELSE IF field \in {"min", "max"} THEN decimalToString(stat[field])
    ELSE hundredthsToString(stat[field])

\* `${t.value}(${t.count})`
topValueText(t) == t.value \o <<"(">> \o numberToString(t.count) \o <<")">>

\* the lines pushed for one ColumnStats entry: one or none
statLines(stat) ==
    CASE stat.type = "number" ->
            << T_bold \o stat.column \o T_numeric \o statText(stat, "min")
               \o T_max \o statText(stat, "max") \o T_mean \o statText(stat, "mean")
               \o T_median \o statText(stat, "median") \o T_sum \o statText(stat, "sum")
               \o T_stdDev \o statText(stat, "stdDev") >>
      [] stat.type = "string" /\ "topValues" \in DOMAIN stat ->
            LET top == firstN(stat.topValues, MaxDigestTopValues)
            IN  << T_bold \o stat.column \o T_categorical \o numberToString(stat.uniqueCount)
                   \o T_unique \o join([k \in 1..Len(top) |-> topValueText(top[k])], T_comma) >>
      [] stat.type = "date" /\ "dateRange" \in DOMAIN stat /\ stat.dateRange # Undefined ->
            << T_bold \o stat.column \o T_date \o stat.dateRange.earliest
               \o T_to \o stat.dateRange.latest >>
      [] OTHER -> <<>>

\* the place of correlation x among the sorted ones: after those of greater
\* or equal magnitude
RECURSIVE insertByMagnitude(_, _)
insertByMagnitude(sorted, x) ==
    IF sorted = <<>> THEN <<x>>
    ELSE IF absOf(Head(sorted).correlation) >= absOf(x.correlation)
         THEN <<Head(sorted)>> \o insertByMagnitude(Tail(sorted), x)
         ELSE <<x>> \o sorted

\* [...correlations].sort((a, b) => Math.abs(b.correlation) - Math.abs(a.correlation))
RECURSIVE sortByMagnitude(_, _, _)
sortByMagnitude(correlations, i, sorted) ==
    IF i > Len(correlations) THEN sorted
    ELSE sortByMagnitude(correlations, i + 1, insertByMagnitude(sorted, correlations[i]))

\* |r| > 0.7 ? "strong" : |r| > 0.4 ? "moderate" : "weak"
strengthOf(r) ==
    IF absOf(r) > StrongThreshold THEN T_strong
    ELSE IF absOf(r) > ModerateThreshold THEN T_moderate
    ELSE T_weak

\* r > 0 ? "positive" : "negative"
directionOf(r) == IF r > 0 THEN T_positive ELSE T_negative

correlationLine(c) ==
    T_dash \o c.xColumn \o T_vs \o c.yColumn \o T_r \o decimalToString(c.correlation)
    \o T_open \o strengthOf(c.correlation) \o <<" ">> \o directionOf(c.correlation) \o <<")">>

correlationLines(correlations) ==
    IF Len(correlations) = 0 THEN <<>>
    ELSE LET top == firstN(sortByMagnitude(correlations, 1, <<>>), MaxDigestCorrelations)
         IN  <<T_correlations>> \o [k \in 1..Len(top) |-> correlationLine(top[k])] \o << <<>> >>

\* JSON.stringify(agg.data[0]): undefined for an aggregation without rows
exampleText(agg) ==
    IF Len(agg.data) = 0 THEN T_undefined
    ELSE <<"{", "\"">> \o agg.groupBy \o <<"\"", ":", "\"">> \o agg.data[1].key
         \o <<"\"", ",", "\"">> \o agg.metric \o <<"\"", ":">>
         \o hundredthsToString(agg.data[1].value) \o <<"}">>

aggregationLine(agg) ==
    T_quote \o agg.description \o T_quoteColon \o numberToString(Len(agg.data))
    \o T_groups \o exampleText(agg) \o <<")">>

aggregationLines(aggregations) ==
    IF Len(aggregations) = 0 THEN <<>>
    ELSE LET first == firstN(aggregations, MaxDigestAggregations)
         IN  <<T_aggregations>> \o [k \in 1..Len(first) |-> aggregationLine(first[k])]

\* the lines array at the return statement
digestLines(s) ==
    << T_overview,
       T_dash \o numberToString(s.rowCount) \o T_rowsBy \o numberToString(s.columnCount)
           \o T_columns,
       T_numericColumns \o listOrNone(s.numericColumns),
       T_categoricalColumns \o listOrNone(s.categoricalColumns),
       T_dateColumns \o listOrNone(s.dateColumns),
       <<>>,
       T_statistics >>
    \o concatRange([k \in 1..Len(s.columnStats) |-> statLines(s.columnStats[k])],
                   1, Len(s.columnStats))
    \o << <<>> >>
    \o correlationLines(s.correlations)
    \o aggregationLines(s.precomputedAggregations)

\* lines.join("\n")
buildAnalysisSummaryText(s) == join(digestLines(s), T_newline)


(***************************************************************************)
(* Ingestion: detectColumnTypes, coerceData, addDataset.                   *)
(* A raw row is a sequence of <<key, cell>> entries, in key order.  The    *)
(* strings of raw cells are made of digits, letters, spaces and hyphens.   *)
(***************************************************************************)
SampleSize == 10

isDigit(c) == \E d \in 1..Len(DigitChars) : DigitChars[d] = c

digitValue(c) == (CHOOSE d \in 1..Len(DigitChars) : DigitChars[d] = c) - 1

allDigits(s) == s # <<>> /\ \A i \in 1..Len(s) : isDigit(s[i])

RECURSIVE digitsValue(_)
digitsValue(s) ==
    IF s = <<>> THEN 0
    ELSE 10 * digitsValue(SubSeq(s, 1, Len(s) - 1)) + digitValue(s[Len(s)])

RECURSIVE trimStart(_)
trimStart(s) == IF s # <<>> /\ isWhitespace(Head(s)) THEN trimStart(Tail(s)) ELSE s

RECURSIVE trimEnd(_)
trimEnd(s) ==
    IF s # <<>> /\ isWhitespace(s[Len(s)]) THEN trimEnd(SubSeq(s, 1, Len(s) - 1)) ELSE s

\* String.prototype.trim
trim(s) == trimEnd(trimStart(s))

\* Number(s) of a string: white space is trimmed, the empty string is 0, a
\* decimal integer literal is its value, anything else is NaN
stringToNumber(s) ==
    LET t == trim(s)
    IN  IF t = <<>> THEN Num(0)
        ELSE IF allDigits(t) THEN Num(digitsValue(t))
        ELSE IF Head(t) = "-" /\ allDigits(Tail(t)) THEN Num(-digitsValue(Tail(t)))
        ELSE NaN

\* typeof v === "number", or !isNaN(Number(v)) && String(Number(v)) === String(v).trim()
looksNumeric(v) ==
    \/ v.t \in {"number", "nan"}
    \/ /\ v.t = "string"
       /\ stringToNumber(v.s).t = "number"
       /\ cellToString(stringToNumber(v.s)) = trim(v.s)

\* the date-only form YYYY-MM-DD (no day beyond its month's last is used)
isIsoDate(s) ==
    /\ Len(s) = 10
    /\ s[5] = "-" /\ s[8] = "-"
    /\ \A i \in {1, 2, 3, 4, 6, 7, 9, 10} : isDigit(s[i])
    /\ digitsValue(SubSeq(s, 6, 7)) \in 1..12
    /\ digitsValue(SubSeq(s, 9, 10)) \in 1..31

\* !isNaN(new Date(v).getTime()); a string that is not in the ISO form is
\* parsed by rules of the engine's own: a digit-only string is a date in
\* some engines (lenient) and not in others
looksLikeDate(v, lenient) ==
    \/ v.t = "number"
    \/ /\ v.t = "string"
       /\ \/ isIsoDate(v.s)
          \/ lenient /\ allDigits(trim(v.s))

entryKeys(row) == [k \in 1..Len(row) |-> row[k][1]]

\* row[col] of a raw row
rawCell(row, col) ==
    IF \E k \in 1..Len(row) : row[k][1] = col
    THEN row[CHOOSE k \in 1..Len(row) : row[k][1] = col][2]
    ELSE Undefined

\* data.slice(0, 10).map((row) => row[col]).filter((v) => v != null && v !== "")
samplesOf(rows, col) ==
    LET head == firstN(rows, SampleSize)
        cells == [i \in 1..Len(head) |-> rawCell(head[i], col)]
    IN  SelectSeq(cells, LAMBDA v : ~isMissing(v))

\* mutant: the date rule is tested before the number rule
detectColumnTypeDateFirst(rows, col, lenient) ==
    LET samples == samplesOf(rows, col)
    IN  IF Len(samples) = 0 THEN "string"
        ELSE IF \A i \in 1..Len(samples) : looksLikeDate(samples[i], lenient) THEN "date"
        ELSE IF \A i \in 1..Len(samples) : looksNumeric(samples[i]) THEN "number"
        ELSE "string"

detectColumnType(rows, col, lenient) ==
    LET samples == samplesOf(rows, col)
    IN  IF Len(samples) = 0 THEN "string"
        ELSE IF \A i \in 1..Len(samples) : looksNumeric(samples[i]) THEN "number"
        ELSE IF \A i \in 1..Len(samples) : looksLikeDate(samples[i], lenient) THEN "date"
        ELSE "string"

detectColumnTypes(rows, lenient) ==
    IF Len(rows) = 0 THEN <<>>
    ELSE [c \in Range(entryKeys(rows[1])) |-> detectColumnType(rows, c, lenient)]

\* types[key] === "number" && typeof value === "string" ? Number(value) : value
coerceCell(types, key, value) ==
    IF typeOf(types, key) = "number" /\ value.t = "string"
    THEN stringToNumber(value.s)
    ELSE value

coerceRow(row, types) ==
    [c \in Range(entryKeys(row)) |-> coerceCell(types, c, rawCell(row, c))]

coerceData(rows, types) == [i \in 1..Len(rows) |-> coerceRow(rows[i], types)]

\* the Dataset record addDataset builds (uploadedAt left out)
newDataset(id, name, rows, lenient) ==
    LET types == detectColumnTypes(rows, lenient)
    IN  [id |-> id,
         name |-> name,
         data |-> coerceData(rows, types),
         columns |-> IF Len(rows) > 0 THEN entryKeys(rows[1]) ELSE <<>>,
         columnTypes |-> types,
         rowCount |-> Len(rows)]


(***************************************************************************)
(* Inputs of the matcher: banks over a few column names, and queries       *)
(***************************************************************************)
MaxBank == 3

N_region == <<"r", "e", "g", "i", "o", "n">>
N_revenue == <<"r", "e", "v", "e", "n", "u", "e">>
N_totalRevenue == <<"t", "o", "t", "a", "l", " ", "r", "e", "v", "e", "n", "u", "e">>
N_Cost == <<"C", "o", "s", "t">>
N_day == <<"d", "a", "y">>

Q_scenarioD == <<"t", "o", "t", "a", "l", " ", "r", "e", "v", "e", "n", "u", "e", " ", "b", "y", " ", "r", "e", "g", "i", "o", "n">>
Q_rev == <<"r", "e", "v">>
Q_tot3 == <<"t", "o", "t", " ", "t", "o", "t", " ", "t", "o", "t">>
Q_AVG == <<"A", "V", "G", " ", "c", "o", "s", "t">>
Q_none == <<"x", "y", "z", " ", " ", "q", "q">>
Q_over == <<" ", "o", "v", "e", "r", " ", "b", "y">>
Q_empty == <<>>

\* scenario D's aggregation: {groupBy: "region", metric: "revenue", operation: sum}
RegionRevenueSum == sumAggregation(N_region, N_revenue, <<>>)

AggChoices ==
    { RegionRevenueSum,
      meanAggregation(N_region, N_revenue, <<>>),
      sumAggregation(N_region, N_totalRevenue, <<>>),
      sumAggregation(N_region, N_Cost, <<>>),
      meanAggregation(N_region, N_Cost, <<>>),
      timeAggregation(N_day, N_revenue, <<>>) }

QueryChoices == {Q_scenarioD, Q_rev, Q_tot3, Q_AVG, Q_none, Q_over, Q_empty}

BoundedSeq(S, n) == UNION {[1..k -> S] : k \in 0..n}

InitMatch ==
    /\ pc = "query"
    /\ query \in QueryChoices
    /\ bank \in BoundedSeq(AggChoices, MaxBank)
    /\ matched = 0
    /\ AnalysisIdle
    /\ StoreIdle
    /\ FrontIdle

\* a caller runs findRelevantAggregation(summary, query)
FindRelevantAggregation ==
    /\ pc = "query"
    /\ matched' = findRelevantAggregation(bank, query)
    /\ pc' = "matched"
    /\ UNCHANGED <<query, bank>>
    /\ UNCHANGED analysisVars
    /\ UNCHANGED storeVars
    /\ UNCHANGED frontVars

NextMatch == FindRelevantAggregation

SpecMatch == InitMatch /\ [][NextMatch]_vars

(***************************************************************************)
(* Claims about findRelevantAggregation                                    *)
(***************************************************************************)
scoreAt(k) == score(bank[k], toLowerCase(query))

BankIndices == 1..Len(bank)

\* C1: findRelevantAggregation returns an aggregation if and only if some
\* aggregation of the bank scores at least 3; it returns none when every
\* aggregation scores below 3, the empty bank included.
C1_MatchIffBestScoreAtLeast3 ==
    pc = "matched" =>
        ((matched # 0) <=> (\E k \in BankIndices : scoreAt(k) >= 3))

\* a match whose score is exactly the threshold
C1_Witness ==
    /\ pc = "matched"
    /\ matched # 0
    /\ scoreAt(matched) = 3

\* C2: a returned aggregation has the maximum score of the bank, and is the
\* earliest aggregation of the bank that has that score.
C2_MatchIsFirstMaximum ==
    (pc = "matched" /\ matched # 0) =>
        /\ matched \in BankIndices
        /\ \A k \in BankIndices : scoreAt(k) <= scoreAt(matched)
        /\ \A k \in BankIndices : k < matched => scoreAt(k) < scoreAt(matched)

\* a match that beats an earlier aggregation and ties with a later one
C2_Witness ==
    /\ pc = "matched"
    /\ matched # 0
    /\ \E k \in BankIndices : k < matched /\ scoreAt(k) > 0
    /\ \E k \in BankIndices : k > matched /\ scoreAt(k) = scoreAt(matched)

ContainsColumnName(q) ==
    \E k \in BankIndices :
        \/ includes(q, toLowerCase(bank[k].groupBy))
        \/ includes(q, toLowerCase(bank[k].metric))

ContainsOperationKeyword(q) ==
    \E w \in {W_total, W_sum, W_average, W_avg, W_mean} : includes(q, w)

\* the words of the query that the partial match looks at
LongWords(q) ==
    LET words == splitWhitespace(q)
    IN  {i \in 1..Len(words) : Len(words[i]) >= 3}

WordInColumnName(q) ==
    LET words == splitWhitespace(q)
    IN  \E i \in LongWords(q) : \E k \in BankIndices :
            \/ includes(toLowerCase(bank[k].groupBy), words[i])
            \/ includes(toLowerCase(bank[k].metric), words[i])

WordsInDescription(q, k) ==
    LET words == splitWhitespace(q)
    IN  Cardinality({i \in LongWords(q) :
            includes(toLowerCase(bank[k].description), words[i])})

\* C3 as stated: no column name and no operation keyword in the query
\* implies no match.
C3_Original ==
    (/\ pc = "matched"
     /\ ~ContainsColumnName(toLowerCase(query))
     /\ ~ContainsOperationKeyword(toLowerCase(query))) => matched = 0

\* C3 (amended): findRelevantAggregation returns none for a query that
\* contains no column name of the bank and no operation keyword, none of
\* whose words of 3 or more characters is part of a column name of the bank,
\* and fewer than 3 of whose words of 3 or more characters occur in any one
\* aggregation's description.
C3_NoVocabularyNoMatch ==
    (/\ pc = "matched"
     /\ ~ContainsColumnName(toLowerCase(query))
     /\ ~ContainsOperationKeyword(toLowerCase(query))
     /\ ~WordInColumnName(toLowerCase(query))
     /\ \A k \in BankIndices : WordsInDescription(toLowerCase(query), k) < 3)
        => matched = 0

\* a query with one word found in a description only: scored, yet no match
C3_Witness ==
    /\ pc = "matched"
    /\ ~ContainsColumnName(toLowerCase(query))
    /\ ~ContainsOperationKeyword(toLowerCase(query))
    /\ ~WordInColumnName(toLowerCase(query))
    /\ \A k \in BankIndices : WordsInDescription(toLowerCase(query), k) < 3
    /\ \E k \in BankIndices : scoreAt(k) > 0
    /\ matched = 0

IsRegionRevenueSum(agg) ==
    /\ agg.groupBy = N_region
    /\ agg.metric = N_revenue
    /\ agg.operation = "sum"

\* C4 as stated: whatever else the bank holds, scenario D's query returns
\* the region/revenue/sum aggregation, with a score of at least 8.
C4_Original ==
    (/\ pc = "matched"
     /\ query = Q_scenarioD
     /\ \E k \in BankIndices : IsRegionRevenueSum(bank[k]))
        => /\ matched # 0
           /\ IsRegionRevenueSum(bank[matched])
           /\ scoreAt(matched) >= 8

\* C4 (amended): for the query "total revenue by region" the
\* region/revenue/sum aggregation scores at least 3 + 3 + 2 = 8, and it is
\* the aggregation returned unless another aggregation of the bank scores
\* higher, or scores the same and occurs earlier.
C4_ScenarioD ==
    (pc = "matched" /\ query = Q_scenarioD) =>
        \A k \in BankIndices : IsRegionRevenueSum(bank[k]) =>
            /\ scoreAt(k) >= 8
            /\ matched # 0
            /\ (\A j \in BankIndices :
                    j # k => \/ scoreAt(j) < scoreAt(k)
                             \/ (scoreAt(j) = scoreAt(k) /\ j > k))
               => matched = k

\* scenario D's aggregation returned from a bank that holds others, one of
\* them an equal copy later in the bank
C4_Witness ==
    /\ pc = "matched"
    /\ query = Q_scenarioD
    /\ matched # 0
    /\ IsRegionRevenueSum(bank[matched])
    /\ Len(bank) >= 3
    /\ \E j \in BankIndices : j > matched /\ bank[j] = bank[matched]
    /\ \E j \in BankIndices : ~IsRegionRevenueSum(bank[j])


(***************************************************************************)
(* Inputs of analyzeDataset: datasets laid out by a few parameters.        *)
(* Numeric columns are named n1, n2, ..., categorical columns c1, c2, ...,  *)
(* date columns d1, d2, ...; column u has no entry in columnTypes.         *)
(***************************************************************************)
MaxNumCols == 7
MaxCatCols == 5
MaxDateCols == 3
SmallRows == 3
ExtraRows == 1

columnName(kind, k) == <<kind>> \o digitsOf(k)

N_untyped == <<"u">>

columnIndex(col) == CHOOSE k \in 1..99 : col = columnName(col[1], k)

maxOf3(a, b, c) == IF a >= b /\ a >= c THEN a ELSE IF b >= c THEN b ELSE c

RECURSIVE interleaved(_, _)
interleaved(p, k) ==
    IF k > maxOf3(p.nNum, p.nCat, p.nDate) THEN <<>>
    ELSE (IF k <= p.nNum THEN <<columnName("n", k)>> ELSE <<>>)
         \o (IF k <= p.nCat THEN <<columnName("c", k)>> ELSE <<>>)
         \o (IF k <= p.nDate THEN <<columnName("d", k)>> ELSE <<>>)
         \o interleaved(p, k + 1)

columnsFor(p) == (IF p.untyped THEN <<N_untyped>> ELSE <<>>) \o interleaved(p, 1)

columnTypesFor(p) ==
    [c \in {columnName("n", k) : k \in 1..p.nNum}
           \cup {columnName("c", k) : k \in 1..p.nCat}
           \cup {columnName("d", k) : k \in 1..p.nDate} |->
        CASE c[1] = "n" -> "number"
          [] c[1] = "c" -> "string"
          [] c[1] = "d" -> "date"]

\* categorical column k: every row its own value if k = p.hiCat, else "a", "b" or
\* null; column p.emptyCat holds the empty string in its odd rows; column
\* p.skewCat holds 12 values, the first ones once and the later ones twice
catCell(k, i, p) ==
    IF k = p.hiCat THEN Str(numberToString(i))
    ELSE IF k = p.mixCat
         THEN CASE i = 1 -> Num(1)
                [] i = 2 -> Str(numberToString(1))
                [] i = 3 -> Null
                [] i = 5 -> Str(W_Unknown)
                [] i = 6 -> NaN
                [] i = 7 -> Str(W_NaN)
                [] OTHER -> Str(numberToString(i))
    ELSE IF k = p.skewCat
         THEN Str(numberToString(IF i <= MaxTopValues + 2 THEN i
                                 ELSE 2 * MaxTopValues + 5 - i))
    ELSE IF k = p.emptyCat /\ i % 2 = 1 THEN Str(<<>>)
    ELSE IF (i + k) % 3 = 0 THEN Null
    ELSE Str(<<LowerLetters[((i + k) % 2) + 1]>>)

\* numeric column k: small integers, or as many thousandths if p.fine; from
\* row p.badFrom on column p.badNum holds NaN, null and text instead, the
\* first column is null in row p.gap, and column p.flatNum holds one value
numCell(k, i, p) ==
    IF k = p.badNum /\ i >= p.badFrom
    THEN CASE i % 3 = 0 -> NaN
           [] i % 3 = 1 -> Null
           [] i % 3 = 2 -> Str(<<"x">>)
    ELSE IF k = 1 /\ i = p.gap THEN Null
    ELSE IF k = p.flatNum THEN Num(1)
    ELSE IF p.fine THEN Thousandths(((i * k) % 7) - 1)
    ELSE Num(((i * k) % 7) - 1)

\* date column k: "21-0", "21-1", "21-2" or null
dateCell(k, i, p) ==
    IF (i + k) % 4 = 0 THEN Null
    ELSE Str(<<"2", "1", "-", DigitChars[((i * k) % 3) + 1]>>)

cellFor(col, i, p) ==
    CASE col[1] = "n" -> numCell(columnIndex(col), i, p)
      [] col[1] = "c" -> catCell(columnIndex(col), i, p)
      [] col[1] = "d" -> dateCell(columnIndex(col), i, p)
      [] col[1] = "u" -> Str(<<"z">>)

\* even rows lack the key of column c2, and the fourth row lacks the key of
\* column p.mixCat
hasKey(col, i, p) ==
    /\ ~(col = columnName("c", 2) /\ i % 2 = 0)
    /\ ~(col = columnName("c", p.mixCat) /\ i = 4)

rowFor(i, p) ==
    LET cols == columnsFor(p)
    IN  [c \in {cols[k] : k \in {k \in 1..Len(cols) : hasKey(cols[k], i, p)}} |->
            cellFor(c, i, p)]

dataFor(p) == [i \in 1..p.nRows |-> rowFor(i, p)]

SmallRowCounts == 0..SmallRows

LargeRowCounts == MaxCategories..(MaxCategories + ExtraRows)

Layout(nNum, nCat, nDate, untyped, hiCat, badNum, nRows) ==
    [nNum |-> nNum, nCat |-> nCat, nDate |-> nDate, untyped |-> untyped,
     hiCat |-> hiCat, badNum |-> badNum, nRows |-> nRows,
     badFrom |-> 3, gap |-> 0, fine |-> FALSE, emptyCat |-> 0, skewCat |-> 0,
     flatNum |-> 0, mixCat |-> 0]

\* categorical columns against numeric columns, with and without a column of
\* as many values as rows
CategoricalLayouts ==
    {Layout(nNum, nCat, 0, FALSE, hiCat, 0, nRows) :
        nNum \in {0, 1, MaxNumCols - 1, MaxNumCols}, nCat \in 0..MaxCatCols,
        hiCat \in 0..MaxCatCols, nRows \in {1} \cup LargeRowCounts}

\* date columns against numeric columns
DateLayouts ==
    {Layout(nNum, 0, nDate, FALSE, 0, 0, nRows) :
        nNum \in 0..MaxNumCols, nDate \in 0..MaxDateCols, nRows \in SmallRowCounts}

\* numeric columns, one of them with invalid cells from its first or its
\* third row on
NumericLayouts ==
    {[Layout(nNum, 0, 0, FALSE, 0, badNum, nRows) EXCEPT !.badFrom = badFrom] :
        nNum \in 0..MaxNumCols, badNum \in 0..MaxNumCols, badFrom \in {1, 3},
        nRows \in SmallRowCounts \cup {SmallRows + 2}}

\* numeric columns of thousandths
FineLayouts ==
    {[Layout(nNum, 0, 0, FALSE, 0, badNum, nRows) EXCEPT !.fine = TRUE] :
        nNum \in 1..3, badNum \in 0..1, nRows \in SmallRowCounts \cup {SmallRows + 2}}

\* two numeric columns of about as many rows as a scatter payload holds
ScatterLayouts ==
    {[Layout(2, 0, 0, FALSE, 0, 0, nRows) EXCEPT !.gap = gap] :
        nRows \in (MaxScatterPoints - 1)..(MaxScatterPoints + 1 + ExtraRows),
        gap \in {0, 1, MaxScatterPoints \div 2}}

\* categorical columns, one of them with more values than topValues keeps
TopValueLayouts ==
    {[Layout(nNum, nCat, 0, FALSE, 0, 0, nRows) EXCEPT !.skewCat = skewCat] :
        nNum \in 0..1, nCat \in 1..2, skewCat \in 1..2,
        nRows \in {MaxTopValues + 1} \cup LargeRowCounts}

\* numeric columns, one of them holding the same value in every row
FlatLayouts ==
    {[Layout(nNum, 0, 0, FALSE, 0, 0, nRows) EXCEPT !.flatNum = flatNum] :
        nNum \in 2..3, flatNum \in 1..2, nRows \in {SmallRows, SmallRows + 2}}

\* a categorical column that mixes numbers, numerals, null, missing cells and
\* the words these are grouped under, of about as many values as are
\* aggregated
MixedKeyLayouts ==
    {[Layout(1, nCat, 0, FALSE, 0, 0, nRows) EXCEPT !.mixCat = mixCat] :
        nCat \in {1, 3}, mixCat \in {1, 3},
        nRows \in {MaxCategories \div 2} \cup LargeRowCounts \cup {MaxCategories + 5}}

\* columns of every type, with or without a column that has no type
MixedLayouts ==
    {[Layout(nNum, nCat, nDate, untyped, 0, badNum, nRows) EXCEPT !.emptyCat = emptyCat] :
        nNum \in 0..2, nCat \in 0..2, nDate \in 0..2, untyped \in BOOLEAN,
        badNum \in 0..1, emptyCat \in 0..1, nRows \in SmallRowCounts}

Layouts ==
    {p \in CategoricalLayouts \cup DateLayouts \cup NumericLayouts \cup FineLayouts
              \cup ScatterLayouts \cup TopValueLayouts \cup FlatLayouts
              \cup MixedKeyLayouts \cup MixedLayouts :
        /\ p.hiCat <= p.nCat
        /\ p.badNum <= p.nNum
        /\ p.emptyCat <= p.nCat
        /\ p.skewCat <= p.nCat
        /\ p.mixCat <= p.nCat}

InitAnalyze ==
    /\ pc = "data"
    /\ \E p \in Layouts :
          /\ data = dataFor(p)
          /\ columns = columnsFor(p)
          /\ columnTypes = columnTypesFor(p)
    /\ summary = <<>>
    /\ returned = <<>>
    /\ digest = <<>>
    /\ MatchIdle
    /\ StoreIdle
    /\ FrontIdle

\* a caller runs analyzeDataset(data, columns, columnTypes)
AnalyzeDataset ==
    /\ pc = "data"
    /\ summary' = analyzeDataset(data, columns, columnTypes)
    /\ pc' = "analyzed"
    /\ UNCHANGED <<data, columns, columnTypes, returned, digest>>
    /\ UNCHANGED matchVars
    /\ UNCHANGED storeVars
    /\ UNCHANGED frontVars

\* a caller runs buildAnalysisSummaryText(summary)
BuildAnalysisSummaryText ==
    /\ pc = "analyzed"
    /\ digest' = buildAnalysisSummaryText(summary)
    /\ pc' = "summarized"
    /\ UNCHANGED <<data, columns, columnTypes, summary, returned>>
    /\ UNCHANGED matchVars
    /\ UNCHANGED storeVars
    /\ UNCHANGED frontVars

NextAnalyze == AnalyzeDataset \/ BuildAnalysisSummaryText

SpecAnalyze == InitAnalyze /\ [][NextAnalyze]_vars

(***************************************************************************)
(* Claims about analyzeDataset                                             *)
(***************************************************************************)
ColumnPositions == 1..Len(columns)

PositionsOfType(type) == {q \in ColumnPositions : typeOf(columnTypes, columns[q]) = type}

\* the rank of the column at position q among the columns of its type
RankInType(q) ==
    Cardinality({r \in 1..q :
        typeOf(columnTypes, columns[r]) = typeOf(columnTypes, columns[q])})

PositionOf(col) == CHOOSE q \in ColumnPositions : columns[q] = col

DistinctValues(col) == Cardinality({cell(data[i], col) : i \in 1..Len(data)})

Aggregations == summary.precomputedAggregations

AggregationsOf(groupCol, metricCol, operation) ==
    {k \in 1..Len(Aggregations) :
        /\ Aggregations[k].groupBy = groupCol
        /\ Aggregations[k].metric = metricCol
        /\ Aggregations[k].operation = operation}

CorrelationsOf(xCol, yCol) ==
    {k \in 1..Len(summary.correlations) :
        /\ summary.correlations[k].xColumn = xCol
        /\ summary.correlations[k].yColumn = yCol}

\* the pairs i < j among the first 5 numeric columns, as column positions
CorrelatedPairs ==
    {pair \in PositionsOfType("number") \X PositionsOfType("number") :
        /\ pair[1] < pair[2]
        /\ RankInType(pair[2]) <= 5}

\* C6 as stated: exactly one CorrelationResult for every pair i < j among
\* the first 5 numeric columns, whatever its number of paired valid samples,
\* and no other CorrelationResult.
C6_Original ==
    pc = "analyzed" =>
        /\ \A pair \in CorrelatedPairs :
              Cardinality(CorrelationsOf(columns[pair[1]], columns[pair[2]])) = 1
        /\ Len(summary.correlations) = Cardinality(CorrelatedPairs)

C8_Original ==
    pc = "analyzed" =>
        \A q \in ColumnPositions :
            LET inNumeric == columns[q] \in Range(summary.numericColumns)
                inCategorical == columns[q] \in Range(summary.categoricalColumns)
                inDate == columns[q] \in Range(summary.dateColumns)
            IN  /\ inNumeric \/ inCategorical \/ inDate
                /\ ~(inNumeric /\ inCategorical)
                /\ ~(inNumeric /\ inDate)
                /\ ~(inCategorical /\ inDate)
                /\ inNumeric => summary.columnStats[q].type = "number"
                /\ inCategorical => summary.columnStats[q].type = "string"
                /\ inDate => summary.columnStats[q].type = "date"

\* C9: the categorical aggregations are exactly one Sum and one Mean for
\* every pair of one of the first 4 categorical columns that has at most 20
\* distinct values and one of the first 6 numeric columns.
C9_CategoricalAggregations ==
    pc = "analyzed" =>
        /\ \A c \in PositionsOfType("string") : \A n \in PositionsOfType("number") :
              LET expected ==
                      IF /\ RankInType(c) <= 4
                         /\ RankInType(n) <= 6
                         /\ DistinctValues(columns[c]) <= 20
                      THEN 1 ELSE 0
              IN  /\ Cardinality(AggregationsOf(columns[c], columns[n], "sum")) = expected
                  /\ Cardinality(AggregationsOf(columns[c], columns[n], "mean")) = expected
        /\ \A k \in 1..Len(Aggregations) :
              typeOf(columnTypes, Aggregations[k].groupBy) = "string" =>
                  /\ typeOf(columnTypes, Aggregations[k].metric) = "number"
                  /\ Aggregations[k].operation \in {"sum", "mean"}

\* 5 categorical columns and 7 numeric ones: one of the first four has more
\* than 20 distinct values and no aggregation, another has aggregations
C9_Witness ==
    /\ pc = "analyzed"
    /\ Cardinality(PositionsOfType("string")) >= 5
    /\ Cardinality(PositionsOfType("number")) >= 7
    /\ \E c \in PositionsOfType("string") :
          /\ RankInType(c) <= 4
          /\ DistinctValues(columns[c]) > 20
          /\ \A k \in 1..Len(Aggregations) : Aggregations[k].groupBy # columns[c]
    /\ \E k \in 1..Len(Aggregations) :
          typeOf(columnTypes, Aggregations[k].groupBy) = "string"

DateAggregations ==
    {k \in 1..Len(Aggregations) : typeOf(columnTypes, Aggregations[k].groupBy) = "date"}

AscendingByKey(rows) ==
    \A i \in 1..(Len(rows) - 1) : localeCompare(rows[i].key, rows[i + 1].key) < 0

DescendingByValue(rows) ==
    \A i \in 1..(Len(rows) - 1) : rows[i].value >= rows[i + 1].value

\* C10: a date aggregation groups by one of the first 2 date columns, takes
\* one of the first 4 numeric columns as metric, is a Sum, and has its data
\* rows in ascending order of the date-column value.
C10_DateAggregations ==
    pc = "analyzed" =>
        \A k \in DateAggregations :
            /\ RankInType(PositionOf(Aggregations[k].groupBy)) <= 2
            /\ typeOf(columnTypes, Aggregations[k].metric) = "number"
            /\ RankInType(PositionOf(Aggregations[k].metric)) <= 4
            /\ Aggregations[k].operation = "sum"
            /\ AscendingByKey(Aggregations[k].data)

\* 3 date columns and 5 numeric ones: a time series of 3 or more dates whose
\* sums are not in descending order
C10_Witness ==
    /\ pc = "analyzed"
    /\ Cardinality(PositionsOfType("date")) >= 3
    /\ Cardinality(PositionsOfType("number")) >= 5
    /\ \E k \in DateAggregations :
          /\ Len(Aggregations[k].data) >= 3
          /\ ~DescendingByValue(Aggregations[k].data)

\* the indices of the rows in which both columns hold a valid number, ascending
PairedRowIndices(xCol, yCol) ==
    SelectSeq([r \in 1..Len(data) |-> r],
              LAMBDA r : cell(data[r], xCol).t = "number" /\ cell(data[r], yCol).t = "number")

\* C16: the scatterData of every CorrelationResult has at most 100 entries:
\* the first 100 rows (or all, if fewer) in which both columns hold a valid
\* number, in row order.
C16_ScatterData ==
    pc = "analyzed" =>
        \A k \in 1..Len(summary.correlations) :
            LET result == summary.correlations[k]
                rows == PairedRowIndices(result.xColumn, result.yColumn)
                kept == IF Len(rows) < 100 THEN Len(rows) ELSE 100
            IN  /\ Len(result.scatterData) <= 100
                /\ Len(result.scatterData) = kept
                /\ \A m \in 1..kept :
                      /\ result.scatterData[m].x = cell(data[rows[m]], result.xColumn).n
                      /\ result.scatterData[m].y = cell(data[rows[m]], result.yColumn).n

\* 102 rows, 101 of them paired (row 50 is not): the payload is cut to 100
\* entries and its 50th entry comes from row 51
C16_Witness ==
    /\ pc = "analyzed"
    /\ Len(data) = 102
    /\ Len(summary.correlations) = 1
    /\ Len(PairedRowIndices(summary.correlations[1].xColumn,
                            summary.correlations[1].yColumn)) = 101
    /\ Len(summary.correlations[1].scatterData) = 100
    /\ summary.correlations[1].scatterData[50].x =
          cell(data[51], summary.correlations[1].xColumn).n
    /\ cell(data[50], summary.correlations[1].xColumn).t = "null"

Stats(q) == summary.columnStats[q]

BaseFields == {"column", "type", "uniqueCount", "nullCount"}

NumericFields == {"min", "max", "mean", "median", "sum", "stdDev"}

\* the valid numbers of the column at position q, in thousandths
ValidNumbersAt(q) ==
    {cell(data[r], columns[q]).n :
        r \in {r \in 1..Len(data) : cell(data[r], columns[q]).t = "number"}}

\* C17 as stated: the reported values of every numeric column that has
\* numeric fields satisfy min <= median <= max (min and max in thousandths,
\* median in hundredths).
C17_Original ==
    pc = "analyzed" =>
        \A q \in ColumnPositions :
            "median" \in DOMAIN Stats(q) =>
                /\ Stats(q).min <= 10 * Stats(q).median
                /\ 10 * Stats(q).median <= Stats(q).max

\* C18 as stated: the reported standard deviation is never negative, and it
\* is 0 exactly when all the valid numbers of the column are identical.
C18_Original ==
    pc = "analyzed" =>
        \A q \in ColumnPositions :
            "stdDev" \in DOMAIN Stats(q) =>
                /\ Stats(q).stdDev >= 0
                /\ Stats(q).stdDev = 0 <=> Cardinality(ValidNumbersAt(q)) = 1

\* C19: the ColumnStats of a Number column without a valid number in any
\* row has the fields column, type, uniqueCount and nullCount and no other:
\* min, max, mean, median, sum and stdDev are absent.
C19_NoNumericFields ==
    pc = "analyzed" =>
        \A q \in PositionsOfType("number") :
            /\ ValidNumbersAt(q) = {} => DOMAIN Stats(q) = BaseFields
            /\ ValidNumbersAt(q) # {} => DOMAIN Stats(q) = BaseFields \cup NumericFields

\* rows whose first Number column holds NaN, null and text only, next to a
\* Number column that has its statistics
C19_Witness ==
    /\ pc = "analyzed"
    /\ Len(data) >= 3
    /\ \E q \in PositionsOfType("number") :
          /\ ValidNumbersAt(q) = {}
          /\ {cell(data[r], columns[q]).t : r \in 1..Len(data)} = {"nan", "null", "string"}
          /\ DOMAIN Stats(q) = BaseFields
    /\ \E q \in PositionsOfType("number") : "min" \in DOMAIN Stats(q)

\* the rows whose cell in the column at position q is null, missing or the empty string
MissingRowsAt(q) ==
    {r \in 1..Len(data) :
        \/ cell(data[r], columns[q]).t \in {"null", "undefined"}
        \/ cell(data[r], columns[q]) = Str(<<>>)}

\* the rows whose cell in the column at position q is the text "null"
LiteralNullRowsAt(q) ==
    {r \in 1..Len(data) : cell(data[r], columns[q]) = Str(<<"n", "u", "l", "l">>)}

\* C20 as stated: in the frequency counts of a String column every null
\* cell and every empty-string cell is counted under the one token "null"
\* (for a column of at most 10 distinct values, whose counts are all kept).
C20_Original ==
    pc = "analyzed" =>
        \A q \in ColumnPositions :
            ("topValues" \in DOMAIN Stats(q) /\ Stats(q).uniqueCount <= 10) =>
                /\ \A k \in 1..Len(Stats(q).topValues) : Stats(q).topValues[k].value # <<>>
                /\ MissingRowsAt(q) # {} =>
                      \E k \in 1..Len(Stats(q).topValues) :
                          /\ Stats(q).topValues[k].value = <<"n", "u", "l", "l">>
                          /\ Stats(q).topValues[k].count =
                                Cardinality(MissingRowsAt(q) \cup LiteralNullRowsAt(q))

\* the string form under which the cell of row r in the column at position q is counted
TokenAt(q, r) ==
    LET v == cell(data[r], columns[q])
    IN  IF v.t \in {"null", "undefined"} THEN <<"n", "u", "l", "l">> ELSE cellToString(v)

TokensAt(q) == {TokenAt(q, r) : r \in 1..Len(data)}

RowsOfToken(q, token) == {r \in 1..Len(data) : TokenAt(q, r) = token}

FirstRowOfToken(q, token) ==
    CHOOSE r \in RowsOfToken(q, token) : \A o \in RowsOfToken(q, token) : r <= o

\* whether token a ranks before token b: more frequent, or as frequent and first seen earlier
RanksBefore(q, a, b) ==
    \/ Cardinality(RowsOfToken(q, a)) > Cardinality(RowsOfToken(q, b))
    \/ /\ Cardinality(RowsOfToken(q, a)) = Cardinality(RowsOfToken(q, b))
       /\ FirstRowOfToken(q, a) < FirstRowOfToken(q, b)

\* C21: topValues of a String column has at most 10 entries, in
\* non-increasing order of count, values of equal count in the order of
\* their first occurrence in the rows, and every value left out ranks after
\* every value kept.
C21_TopValues ==
    pc = "analyzed" =>
        \A q \in ColumnPositions :
            "topValues" \in DOMAIN Stats(q) =>
                LET top == Stats(q).topValues
                    kept == {top[k].value : k \in 1..Len(top)}
                IN  /\ Len(top) <= 10
                    /\ Len(top) = IF Cardinality(TokensAt(q)) < 10
                                  THEN Cardinality(TokensAt(q)) ELSE 10
                    /\ kept \subseteq TokensAt(q)
                    /\ \A k \in 1..Len(top) :
                          top[k].count = Cardinality(RowsOfToken(q, top[k].value))
                    /\ \A i \in 1..Len(top) : \A j \in 1..Len(top) :
                          i < j => RanksBefore(q, top[i].value, top[j].value)
                    /\ \A out \in TokensAt(q) \ kept : \A in \in kept :
                          RanksBefore(q, in, out)

\* 12 values, of which the last 8 to appear occur twice: they come first in
\* topValues, and 2 of the 4 values that occur once are left out
C21_Witness ==
    /\ pc = "analyzed"
    /\ \E q \in ColumnPositions :
          /\ "topValues" \in DOMAIN Stats(q)
          /\ Cardinality(TokensAt(q)) = 12
          /\ Len(Stats(q).topValues) = 10
          /\ Stats(q).topValues[1].count = 2
          /\ FirstRowOfToken(q, Stats(q).topValues[1].value) = 5
          /\ Stats(q).topValues[9].count = 1
          /\ FirstRowOfToken(q, Stats(q).topValues[9].value) = 1

Summarized == pc = "summarized"

NewlinePositions == {i \in 1..Len(digest) : digest[i] = "\n"}

\* the positions at which the lines of the digest start
LineStarts == {1} \cup {i + 1 : i \in NewlinePositions}

\* the position just past the line that starts at s
LineEnd(s) ==
    LET later == {j \in NewlinePositions : j >= s}
    IN  IF later = {} THEN Len(digest) + 1
        ELSE CHOOSE j \in later : \A k \in later : j <= k

DigestLine(s) == SubSeq(digest, s, LineEnd(s) - 1)

HeaderStarts ==
    {s \in LineStarts :
        /\ LineEnd(s) = s + Len(T_correlations)
        /\ DigestLine(s) = T_correlations}

\* where the lines of the notable-correlations block start, its header
\* left out: the lines after the header up to the first empty one
NotableLineNumbers ==
    {s \in LineStarts :
        \E h \in HeaderStarts :
            /\ h < s
            /\ \A t \in LineStarts : (h < t /\ t <= s) => LineEnd(t) > t}

IsPrefix(prefix, line) ==
    Len(prefix) <= Len(line) /\ SubSeq(line, 1, Len(prefix)) = prefix

\* how a line about correlation c begins
LinePrefix(c) ==
    <<"-", " ">> \o c.xColumn \o <<" ", "v", "s", " ">> \o c.yColumn
    \o <<":", " ", "r", "=">> \o decimalToString(c.correlation) \o <<" ", "(">>

Magnitude(r) == IF r < 0 THEN -r ELSE r

\* what follows the opening bracket of a line about correlation c
LabelOf(line, c) == SubSeq(line, Len(LinePrefix(c)) + 1, Len(line))

LabelAgrees(label, r) ==
    LET strong == IsPrefix(<<"s", "t", "r", "o", "n", "g", " ">>, label)
        moderate == IsPrefix(<<"m", "o", "d", "e", "r", "a", "t", "e", " ">>, label)
        weak == IsPrefix(<<"w", "e", "a", "k", " ">>, label)
    IN  /\ strong \/ moderate \/ weak
        /\ strong => Magnitude(r) >= 700
        /\ moderate => Magnitude(r) >= 400 /\ Magnitude(r) <= 700
        /\ weak => Magnitude(r) <= 400
        /\ includes(label, <<"p", "o", "s", "i", "t", "i", "v", "e">>) => r > 0
        /\ includes(label, <<"n", "e", "g", "a", "t", "i", "v", "e">>) => r < 0

\* does the block of lines list the largest correlations as claimed
NotableBlockAgrees(starts, correlations) ==
    LET indices == 1..Len(correlations)
        line == [s \in starts |-> DigestLine(s)]
        \* the correlation a line is about; 0 if it is about none
        about == [s \in starts |->
                    IF \E i \in indices : IsPrefix(LinePrefix(correlations[i]), line[s])
                    THEN CHOOSE i \in indices : IsPrefix(LinePrefix(correlations[i]), line[s])
                    ELSE 0]
        listed == {about[s] : s \in starts}
        size(i) == Magnitude(correlations[i].correlation)
    IN  /\ Cardinality(starts) = IF Len(correlations) < 5 THEN Len(correlations) ELSE 5
        /\ 0 \notin listed
        /\ Cardinality(listed) = Cardinality(starts)
        /\ \A s \in starts : \A t \in starts :
              s < t => size(about[s]) >= size(about[t])
        /\ \A i \in indices \ listed : \A j \in listed : size(j) >= size(i)
        /\ \A s \in starts :
              LabelAgrees(LabelOf(line[s], correlations[about[s]]),
                          correlations[about[s]].correlation)

\* C23 as stated: the notable-correlations block lists at most 5
\* correlations, those of largest |r|, in non-increasing order of |r|; each
\* line is labelled strong, moderate or weak by the thresholds 0.7 and 0.4
\* of |r|, and says "positive" only if r > 0 and "negative" only if r < 0.
C23_Original ==
    Summarized => NotableBlockAgrees(NotableLineNumbers, summary.correlations)

IsCategorical(agg) == typeOf(columnTypes, agg.groupBy) = "string"

IsDateBased(agg) == typeOf(columnTypes, agg.groupBy) = "date"

\* whether aggregation a is generated before aggregation b
GeneratedBefore(a, b) ==
    LET sameKind == (IsCategorical(a) /\ IsCategorical(b)) \/ (IsDateBased(a) /\ IsDateBased(b))
    IN  \/ IsCategorical(a) /\ IsDateBased(b)
        \/ sameKind /\ PositionOf(a.groupBy) < PositionOf(b.groupBy)
        \/ sameKind /\ a.groupBy = b.groupBy /\ PositionOf(a.metric) < PositionOf(b.metric)
        \/ /\ IsCategorical(a) /\ IsCategorical(b)
           /\ a.groupBy = b.groupBy /\ a.metric = b.metric
           /\ a.operation = "sum" /\ b.operation = "mean"

TailRows == 2

N_g == <<"g">>
N_n == <<"n">>
N_m == <<"m">>

S_5 == <<"5">>
S_007 == <<"0", "0", "7">>
S_abc == <<"a", "b", "c">>
S_date == <<"2", "0", "2", "1", "-", "0", "1", "-", "0", "5">>

RawCellChoices == {Str(S_5), Str(<<>>), Str(S_abc), Str(S_007), Str(S_date), Null, Num(3)}

rawRowFor(i, first, fill, tail, mTail) ==
    << <<N_g, Str(IF i <= 2 \/ i % 2 = 1 THEN <<"a">> ELSE <<"b">>)>>,
       <<N_n, IF i = 1 THEN first ELSE IF i <= SampleSize THEN fill ELSE tail>>,
       <<N_m, IF i <= SampleSize THEN Str(<<DigitChars[(i % 3) + 2]>>) ELSE mTail>> >>

RawRowCounts == (0..2) \cup (SampleSize..(SampleSize + TailRows))

InitIngest ==
    /\ pc = "raw"
    /\ \E count \in RawRowCounts, first \in RawCellChoices, fill \in RawCellChoices,
          tail \in RawCellChoices, mTail \in {Str(S_5), Str(<<>>)} :
          rawData = [i \in 1..count |-> rawRowFor(i, first, fill, tail, mTail)]
    /\ lenientDates \in BOOLEAN
    /\ datasets = <<>>
    /\ activeDatasetId = 0
    /\ nextId = 1
    /\ AnalysisIdle
    /\ MatchIdle
    /\ FrontIdle

notIncremented(n) == n

\* nextId++ leaves the counter one higher
incremented(n) == n + 1

\* addDataset(name, rawData)
AddDataset ==
    /\ pc = "raw"
    /\ datasets' = Append(datasets, newDataset(nextId, "upload", rawData, lenientDates))
    /\ activeDatasetId' = nextId
    /\ nextId' = incremented(nextId)
    /\ pc' = "added"
    /\ UNCHANGED <<rawData, lenientDates>>
    /\ UNCHANGED frontVars
    /\ UNCHANGED analysisVars
    /\ UNCHANGED matchVars

\* datasets.find((d) => d.id === activeDatasetId) ?? null
activeDataset ==
    IF \E k \in 1..Len(datasets) : datasets[k].id = activeDatasetId
    THEN datasets[CHOOSE k \in 1..Len(datasets) : datasets[k].id = activeDatasetId]
    ELSE Null

\* analyzeDataset(activeDataset.data, activeDataset.columns, activeDataset.columnTypes)
AnalyzeActiveDataset ==
    /\ pc = "added"
    /\ activeDataset # Null
    /\ data' = activeDataset.data
    /\ columns' = activeDataset.columns
    /\ columnTypes' = activeDataset.columnTypes
    /\ summary' = analyzeDataset(activeDataset.data, activeDataset.columns,
                                 activeDataset.columnTypes)
    /\ pc' = "analyzed"
    /\ UNCHANGED <<returned, digest>>
    /\ UNCHANGED storeVars
    /\ UNCHANGED frontVars
    /\ UNCHANGED matchVars

NextIngest == AddDataset \/ AnalyzeActiveDataset

SpecIngest == InitIngest /\ [][NextIngest]_vars

(***************************************************************************)
(* Claims about ingestion followed by analysis                             *)
(***************************************************************************)
\* a raw cell that holds a number: a number, or a string with a numeric literal
RawIsNumber(v) ==
    \/ v.t = "number"
    \/ v.t = "string" /\ trim(v.s) # <<>> /\ stringToNumber(v.s).t = "number"

\* the number a raw cell holds, an integer
RawNumber(v) == (IF v.t = "number" THEN v.n ELSE stringToNumber(v.s).n) \div UnitsPerOne

\* the raw rows of a group whose cell in column col holds a number
RawNumberRows(groupCol, key, col) ==
    {i \in 1..Len(rawData) :
        /\ groupKey(rawCell(rawData[i], groupCol)) = key
        /\ RawIsNumber(rawCell(rawData[i], col))}

RECURSIVE SumOver(_, _, _)
SumOver(rowSet, col, i) ==
    IF i > Len(rawData) THEN 0
    ELSE (IF i \in rowSet THEN RawNumber(rawCell(rawData[i], col)) ELSE 0)
         + SumOver(rowSet, col, i + 1)

RawSum(groupCol, key, col) ==
    100 * SumOver(RawNumberRows(groupCol, key, col), col, 1)

RawMean(groupCol, key, col) ==
    LET rowSet == RawNumberRows(groupCol, key, col)
    IN  IF rowSet = {} THEN 0
        ELSE (2 * 100 * SumOver(rowSet, col, 1) + Cardinality(rowSet))
                 \div (2 * Cardinality(rowSet))

RawPairedRows(xCol, yCol) ==
    {i \in 1..Len(rawData) :
        /\ RawIsNumber(rawCell(rawData[i], xCol))
        /\ RawIsNumber(rawCell(rawData[i], yCol))}

\* C5 as stated: after addDataset and analyzeDataset, every Sum and Mean of
\* a column classified Number is taken over the cells that hold a number
\* only, and every correlation pairs only the rows where both cells hold a
\* number: an empty or non-numeric cell is not counted as 0.
C5_Original ==
    pc = "analyzed" =>
        /\ \A k \in 1..Len(Aggregations) :
              \A r \in 1..Len(Aggregations[k].data) :
                  Aggregations[k].data[r].value =
                      IF Aggregations[k].operation = "sum"
                      THEN RawSum(Aggregations[k].groupBy, Aggregations[k].data[r].key,
                                  Aggregations[k].metric)
                      ELSE RawMean(Aggregations[k].groupBy, Aggregations[k].data[r].key,
                                   Aggregations[k].metric)
        /\ \A k \in 1..Len(summary.correlations) :
              Len(summary.correlations[k].scatterData) =
                  Cardinality(RawPairedRows(summary.correlations[k].xColumn,
                                            summary.correlations[k].yColumn))


(***************************************************************************)
(* The statistic helpers applied on their own: aggregateByGroup over rows   *)
(* of a group column g and a value column x, pearsonCorrelation over the    *)
(* rows in which columns x and y both hold a valid number.                  *)
(***************************************************************************)
MaxHelperRows == 3

N_x == <<"x">>
N_y == <<"y">>

S_Unknown == W_Unknown

GroupCellChoices == {Str(<<"a">>), Str(<<"b">>), Str(S_Unknown), Null}

ValueCellChoices == {Num(1), Num(2), NaN}

PartnerCellChoices == {Num(1), Num(3), Null}

\* rows to aggregate: column y is absent
GroupedRows ==
    {[c \in {N_g, N_x} |-> IF c = N_g THEN g ELSE x] :
        g \in GroupCellChoices, x \in ValueCellChoices}

\* rows to correlate: column g is absent
PairedRows ==
    {[c \in {N_x, N_y} |-> IF c = N_x THEN x ELSE y] :
        x \in ValueCellChoices, y \in PartnerCellChoices}

InitHelpers ==
    /\ pc = "rows"
    /\ data \in BoundedSeq(GroupedRows, MaxHelperRows) \cup BoundedSeq(PairedRows, MaxHelperRows)
    /\ columns = <<>>
    /\ columnTypes = <<>>
    /\ summary = <<>>
    /\ returned = <<>>
    /\ digest = <<>>
    /\ MatchIdle
    /\ StoreIdle
    /\ FrontIdle

\* aggregateByGroup(data, "g", "x", operation)
AggregateByGroup ==
    /\ pc = "rows"
    /\ \E operation \in {"sum", "mean", "count"} :
          returned' = [fn |-> "aggregateByGroup", operation |-> operation,
                       value |-> aggregateByGroup(data, N_g, N_x, operation)]
    /\ pc' = "returned"
    /\ UNCHANGED <<data, columns, columnTypes, summary, digest>>
    /\ UNCHANGED matchVars
    /\ UNCHANGED storeVars
    /\ UNCHANGED frontVars

\* pearsonCorrelation(paired.map((p) => p.x), paired.map((p) => p.y))
PearsonCorrelation ==
    /\ pc = "rows"
    /\ LET paired == pairedSamples(data, N_x, N_y)
       IN  returned' = [fn |-> "pearsonCorrelation", operation |-> "none",
                        value |-> pearsonCorrelation(
                                      [i \in 1..Len(paired) |-> paired[i].x],
                                      [i \in 1..Len(paired) |-> paired[i].y])]
    /\ pc' = "returned"
    /\ UNCHANGED <<data, columns, columnTypes, summary, digest>>
    /\ UNCHANGED matchVars
    /\ UNCHANGED storeVars
    /\ UNCHANGED frontVars

NextHelpers == AggregateByGroup \/ PearsonCorrelation

SpecHelpers == InitHelpers /\ [][NextHelpers]_vars

(***************************************************************************)
(* Claims about the statistic helpers                                      *)
(***************************************************************************)
Aggregated == pc = "returned" /\ returned.fn = "aggregateByGroup"

\* the string form of the group cell of row r
KeyOfRow(r) ==
    LET v == cell(data[r], N_g)
    IN  IF v.t \in {"null", "undefined"} THEN S_Unknown ELSE cellToString(v)

ObservedKeys == {KeyOfRow(r) : r \in 1..Len(data)}

RowsOfKey(key) == {r \in 1..Len(data) : KeyOfRow(r) = key}

\* the rows of a group whose metric cell is a valid number
ValidRowsOfKey(key) == {r \in RowsOfKey(key) : cell(data[r], N_x).t = "number"}

ValidRows == {r \in 1..Len(data) : cell(data[r], N_x).t = "number"}

RECURSIVE TotalOver(_, _)
TotalOver(rowSet, r) ==
    IF r > Len(data) THEN 0
    ELSE (IF r \in rowSet THEN cell(data[r], N_x).n ELSE 0) + TotalOver(rowSet, r + 1)

RECURSIVE SumOfValues(_, _)
SumOfValues(rows, k) ==
    IF k > Len(rows) THEN 0 ELSE rows[k].value + SumOfValues(rows, k + 1)

\* C12: with operation Count the per-group values add up to the number of
\* rows whose metric cell is a valid number, and there is one output row for
\* every distinct group key observed.
C12_CountTotals ==
    Aggregated =>
        /\ Len(returned.value) = Cardinality(ObservedKeys)
        /\ {returned.value[k].key : k \in 1..Len(returned.value)} = ObservedKeys
        /\ returned.operation = "count" =>
              SumOfValues(returned.value, 1) = 100 * Cardinality(ValidRows)

\* a Count over three rows of two groups, one of the rows without a valid number
C12_Witness ==
    /\ Aggregated
    /\ returned.operation = "count"
    /\ Len(data) = 3
    /\ Len(returned.value) = 2
    /\ Cardinality(ValidRows) = 2

FirstRowOfKey(key) == CHOOSE r \in RowsOfKey(key) : \A q \in RowsOfKey(key) : r <= q

\* C13: the rows of an aggregation are in non-increasing order of the
\* reduced value, groups of equal value in the order in which their keys
\* first occur in the input rows.
C13_SortedDescendingStable ==
    Aggregated =>
        \A i \in 1..Len(returned.value) : \A j \in 1..Len(returned.value) :
            i < j =>
                /\ returned.value[i].value >= returned.value[j].value
                /\ returned.value[i].value = returned.value[j].value =>
                      FirstRowOfKey(returned.value[i].key) < FirstRowOfKey(returned.value[j].key)

\* three groups: the last one encountered has the greatest value and comes
\* first, the two others tie and keep their order, which is not alphabetical
C13_Witness ==
    /\ Aggregated
    /\ returned.operation = "sum"
    /\ Len(returned.value) = 3
    /\ returned.value[1].value > returned.value[2].value
    /\ returned.value[2].value = returned.value[3].value
    /\ FirstRowOfKey(returned.value[1].key) = 3
    /\ returned.value[2].key = <<"b">>
    /\ returned.value[3].key = <<"a">>

\* C14: a row whose metric cell is not a valid number creates its group and
\* adds nothing to it: Sum is the total of the group's valid numbers, Mean
\* that total divided by their count (both rounded to 2 decimals), and Mean
\* is 0 for a group without a valid number.
C14_InvalidValuesDropped ==
    Aggregated =>
        /\ \A key \in ObservedKeys : \E k \in 1..Len(returned.value) : returned.value[k].key = key
        /\ \A k \in 1..Len(returned.value) :
              LET valid == ValidRowsOfKey(returned.value[k].key)
                  total == TotalOver(valid, 1)
                  count == Cardinality(valid)
                  v == returned.value[k].value
              IN  /\ returned.operation = "sum" =>
                        10 * v <= total + 5 /\ total + 5 < 10 * v + 10
                  /\ (returned.operation = "mean" /\ count > 0) =>
                        /\ 10 * count * v <= total + 5 * count
                        /\ total + 5 * count < 10 * count * v + 10 * count
                  /\ (returned.operation = "mean" /\ count = 0) => v = 0

\* a Mean with a group of only an invalid row (mean 0) and a group of a
\* valid and an invalid row (mean of the valid one)
C14_Witness ==
    /\ Aggregated
    /\ returned.operation = "mean"
    /\ \E k \in 1..Len(returned.value) :
          /\ ValidRowsOfKey(returned.value[k].key) = {}
          /\ returned.value[k].value = 0
    /\ \E k \in 1..Len(returned.value) :
          /\ Cardinality(RowsOfKey(returned.value[k].key)) = 2
          /\ Cardinality(ValidRowsOfKey(returned.value[k].key)) = 1
          /\ returned.value[k].value = 200

Correlated == pc = "returned" /\ returned.fn = "pearsonCorrelation"

\* the rows in which columns x and y both hold a valid number
BothValidRows ==
    {r \in 1..Len(data) :
        cell(data[r], N_x).t = "number" /\ cell(data[r], N_y).t = "number"}

CellTypes(col) == {cell(data[i], col).t : i \in 1..Len(data)}

\* C30: every categorical (non-date) aggregation has at most 20 data rows,
\* also when its group column mixes null, missing, numeric and string cells.
C30_AtMostTwentyGroups ==
    pc = "analyzed" =>
        \A k \in 1..Len(Aggregations) :
            IsCategorical(Aggregations[k]) => Len(Aggregations[k].data) <= 20

\* an aggregation over a group column of exactly 20 distinct values, among
\* them null, a missing cell, a number and strings, some of which share a
\* group
C30_Witness ==
    /\ pc = "analyzed"
    /\ \E k \in 1..Len(Aggregations) :
          /\ IsCategorical(Aggregations[k])
          /\ DistinctValues(Aggregations[k].groupBy) = 20
          /\ {"null", "undefined", "number", "string"}
                \subseteq CellTypes(Aggregations[k].groupBy)
          /\ Len(Aggregations[k].data) < 20
          /\ Len(Aggregations[k].data) > 10

(***************************************************************************)
(* Claims about type inference                                             *)
(***************************************************************************)
\* the cells of a column in the first 10 rows that are neither null nor empty
LeadingSamples(col) ==
    {rawCell(rawData[i], col) :
        i \in {i \in 1..Len(rawData) :
                 /\ i <= 10
                 /\ rawCell(rawData[i], col).t \notin {"null", "undefined"}
                 /\ rawCell(rawData[i], col) # Str(<<>>)}}

\* a decimal integer in the form String(number) gives: no sign but "-", no
\* leading zero, no "-0"
IsCanonicalInteger(t) ==
    LET digits == IF t # <<>> /\ Head(t) = "-" THEN Tail(t) ELSE t
    IN  /\ digits # <<>>
        /\ \A i \in 1..Len(digits) : digits[i] \in Range(DigitChars)
        /\ Len(digits) > 1 => Head(digits) # "0"
        /\ (Head(digits) = "0") => t = digits

\* a sample that is already a number, or text that parses back to itself
IsNumericLiteral(v) ==
    \/ v.t \in {"number", "nan"}
    \/ v.t = "string" /\ IsCanonicalInteger(trim(v.s))

\* a sample the engine's Date parser accepts
ParsesAsDate(v) == looksLikeDate(v, lenientDates)

ExpectedType(col) ==
    IF LeadingSamples(col) = {} THEN "string"
    ELSE IF \A v \in LeadingSamples(col) : IsNumericLiteral(v) THEN "number"
    ELSE IF \A v \in LeadingSamples(col) : ParsesAsDate(v) THEN "date"
    ELSE "string"

Added == pc = "added" /\ Len(datasets) = 1

K_sales == <<"s", "a", "l", "e", "s">>
K_revenue == <<"r", "e", "v", "e", "n", "u", "e">>
K_region == <<"r", "e", "g", "i", "o", "n">>
K_customer == <<"c", "u", "s", "t", "o", "m", "e", "r">>
K_user == <<"u", "s", "e", "r">>
K_growth == <<"g", "r", "o", "w", "t", "h">>
K_conversion == <<"c", "o", "n", "v", "e", "r", "s", "i", "o", "n">>
K_market == <<"m", "a", "r", "k", "e", "t">>
K_share == <<"s", "h", "a", "r", "e">>
K_correlation == <<"c", "o", "r", "r", "e", "l", "a", "t", "i", "o", "n">>
K_analyze == <<"a", "n", "a", "l", "y", "z", "e">>

E_notUnderstood ==
    <<"C", "o", "u", "l", "d", " ", "n", "o", "t", " ", "u", "n", "d", "e",
      "r", "s", "t", "a", "n", "d", " ", "y", "o", "u", "r", " ", "r", "e",
      "q", "u", "e", "s", "t", ".", " ", "T", "r", "y", " ", "a", "s", "k",
      "i", "n", "g", " ", "f", "o", "r", " ", "s", "a", "l", "e", "s", ",",
      " ", "u", "s", "e", "r", "s", ",", " ", "m", "a", "r", "k", "e", "t",
      " ", "s", "h", "a", "r", "e", ",", " ", "o", "r", " ", "c", "o", "r",
      "r", "e", "l", "a", "t", "i", "o", "n", " ", "a", "n", "a", "l", "y",
      "s", "i", "s", ".">>

X_generated ==
    <<"I", "'", "v", "e", " ", "g", "e", "n", "e", "r", "a", "t", "e", "d",
      " ", "a", " ", "d", "a", "s", "h", "b", "o", "a", "r", "d", " ", "w",
      "i", "t", "h", " ">>

X_components ==
    <<" ", "c", "o", "m", "p", "o", "n", "e", "n", "t", "s", " ", "b", "a",
      "s", "e", "d", " ", "o", "n", " ", "y", "o", "u", "r", " ", "r", "e",
      "q", "u", "e", "s", "t", ".", " ", "T", "h", "e", " ", "d", "a", "s",
      "h", "b", "o", "a", "r", "d", " ", "i", "n", "c", "l", "u", "d", "e",
      "s", " ", "c", "h", "a", "r", "t", "s", ",", " ", "m", "e", "t", "r",
      "i", "c", "s", ",", " ", "a", "n", "d", " ", "d", "a", "t", "a", " ",
      "t", "a", "b", "l", "e", "s", " ", "t", "o", " ", "h", "e", "l", "p",
      " ", "y", "o", "u", " ", "v", "i", "s", "u", "a", "l", "i", "z", "e",
      " ", "y", "o", "u", "r", " ", "d", "a", "t", "a", ".">>

RegistryNames ==
    {"KPICard", "LineChart", "BarChart", "PieChart", "DataTable", "ScatterPlot",
     "StatCard", "TextBlock"}

instruction(name, title) == [name |-> name, title |-> title]

\* the instructions for a request, by the keywords it contains
analyzeRequest(userRequest) ==
    LET request == toLowerCase(userRequest)
        has(keyword) == includes(request, keyword)
        sales ==
            IF has(K_sales) \/ has(K_revenue)
            THEN <<instruction("KPICard", "Total Revenue"),
                   instruction("LineChart", "Monthly Revenue Trend")>>
                 \o (IF has(K_region)
                     THEN <<instruction("BarChart", "Sales by Region")>> ELSE <<>>)
                 \o (IF has(K_customer)
                     THEN <<instruction("DataTable", "Top Customers")>> ELSE <<>>)
            ELSE <<>>
        users ==
            IF has(K_user) \/ has(K_growth)
            THEN <<instruction("KPICard", "User Growth"),
                   instruction("LineChart", "User Growth Over Time")>>
                 \o (IF has(K_conversion)
                     THEN <<instruction("KPICard", "Conversion Rate")>> ELSE <<>>)
            ELSE <<>>
        market ==
            IF has(K_market) \/ has(K_share)
            THEN <<instruction("PieChart", "Market Share")>> ELSE <<>>
        correlation ==
            IF has(K_correlation) \/ has(K_analyze)
            THEN <<instruction("ScatterPlot", "Revenue vs Customer Count")>> ELSE <<>>
        instructions == sales \o users \o market \o correlation
    IN  IF Len(instructions) > 0
        THEN Append(instructions, instruction("TextBlock", "Key Insights"))
        ELSE instructions

generateExplanation(request, componentCount) ==
    X_generated \o numberToString(componentCount) \o X_components

\* instructions.map(...).filter((c) => c !== null): the instructions whose
\* name the registry knows, each with the id made of its name and its index
renderable(instructions) ==
    LET made == [i \in 1..Len(instructions) |->
                    [id |-> <<instructions[i].name, i - 1>>,
                     instruction |-> instructions[i]]]
        known(c) == c.instruction.name \in RegistryNames
    IN  SelectSeq(made, known)

\* the hook state as a record, for the updaters of setState
hookState ==
    [components |-> components, loading |-> loading, error |-> error,
     explanation |-> explanation]

\* the first setState of orchestrateDashboard
started(prev) == [prev EXCEPT !.loading = TRUE, !.error = Null]

\* the setState orchestrateDashboard makes once its timer has fired
settled(prev, userRequest) ==
    LET instructions == analyzeRequest(userRequest)
        made == renderable(instructions)
    IN  IF Len(instructions) = 0
        THEN [prev EXCEPT !.loading = FALSE, !.error = Str(E_notUnderstood),
                          !.explanation = <<>>, !.components = <<>>]
        ELSE [prev EXCEPT !.loading = FALSE, !.components = made,
                          !.explanation = generateExplanation(userRequest, Len(made))]

\* the state clearDashboard sets
cleared == [components |-> <<>>, loading |-> FALSE, error |-> Null, explanation |-> <<>>]

\* the render of DashboardBuilder answers the last user message once
\* components are there and nothing is loading
rendered(msgs, state) ==
    IF /\ Len(state.components) > 0
       /\ Len(msgs) > 0
       /\ ~state.loading
       /\ msgs[Len(msgs)].type = "user"
    THEN Append(msgs, [type |-> "ai", content |-> state.explanation])
    ELSE msgs

(***************************************************************************)
(* Inputs of the page: what the user types, and how many requests and      *)
(* messages a run holds                                                    *)
(***************************************************************************)
MaxPending == 2

MaxMessages == 3

R_salesByRegion ==
    <<"S", "a", "l", "e", "s", " ", "b", "y", " ", "r", "e", "g", "i", "o",
      "n">>

R_userGrowth == <<"u", "s", "e", "r", " ", "g", "r", "o", "w", "t", "h">>

R_unknown == <<"x", "y", "z">>

R_blank == <<" ">>

RequestChoices == {<<>>, R_blank, R_salesByRegion, R_userGrowth, R_unknown}

InitOrchestrate ==
    /\ pc = "page"
    /\ HookIdle
    /\ UploadIdle
    /\ ThemeIdle
    /\ MatchIdle
    /\ AnalysisIdle
    /\ StoreIdle

setHookState(state) ==
    /\ components' = state.components
    /\ loading' = state.loading
    /\ error' = state.error
    /\ explanation' = state.explanation

\* onChange of the prompt box
SetInput ==
    /\ pc = "page"
    /\ \E value \in RequestChoices : input' = value
    /\ UNCHANGED <<pc, messages, components, loading, error, explanation, pending>>
    /\ UNCHANGED <<uploadVars, themeVars, matchVars, analysisVars, storeVars>>

\* handleGenerate, from the button or from the Enter key (handleKeyPress),
\* up to the await inside orchestrateDashboard
HandleGenerate ==
    /\ pc = "page"
    /\ trim(input) # <<>>
    /\ Len(pending) < MaxPending
    /\ Len(messages) < MaxMessages
    /\ setHookState(started(hookState))
    /\ messages' = rendered(Append(messages, [type |-> "user", content |-> input]),
                            started(hookState))
    /\ input' = <<>>
    /\ pending' = Append(pending, input)
    /\ UNCHANGED pc
    /\ UNCHANGED <<uploadVars, themeVars, matchVars, analysisVars, storeVars>>

\* the rest of the oldest orchestrateDashboard call, once its timer has fired
ResumeOrchestrate ==
    /\ pc = "page"
    /\ pending # <<>>
    /\ setHookState(settled(hookState, Head(pending)))
    /\ messages' = rendered(messages, settled(hookState, Head(pending)))
    /\ pending' = Tail(pending)
    /\ UNCHANGED <<pc, input>>
    /\ UNCHANGED <<uploadVars, themeVars, matchVars, analysisVars, storeVars>>

\* handleClear; the Clear button is there once there is something to clear
HandleClear ==
    /\ pc = "page"
    /\ Len(components) > 0 \/ Len(messages) > 0
    /\ setHookState(cleared)
    /\ messages' = <<>>
    /\ input' = <<>>
    /\ UNCHANGED <<pc, pending>>
    /\ UNCHANGED <<uploadVars, themeVars, matchVars, analysisVars, storeVars>>

NextOrchestrate == SetInput \/ HandleGenerate \/ ResumeOrchestrate \/ HandleClear

SpecOrchestrate == InitOrchestrate /\ [][NextOrchestrate]_vars

(***************************************************************************)
(* Claims about the orchestration hook                                     *)
(***************************************************************************)
\* C24 as stated: with overlapping orchestrateDashboard calls, whenever
\* loading is false the hook state does not hold both a non-null error and a
\* non-empty components list.
C24_Original == ~loading => ~(error # Null /\ Len(components) > 0)

\* C25 as stated: loading is true in every state in which at least one
\* orchestrateDashboard call has started and not yet completed.
C25_Original == pending # <<>> => loading


(***************************************************************************)
(* DataUpload: processFile and the callbacks of the file read it starts.   *)
(* A file is its name and its content; the content of a .json file is      *)
(* carried as the value JSON.parse makes of it, the content of a .csv or   *)
(* .tsv file as the result Papa.parse makes of it.                         *)
(***************************************************************************)
X_json == <<".", "j", "s", "o", "n">>

X_csv == <<".", "c", "s", "v">>

X_tsv == <<".", "t", "s", "v">>

N_data == <<"d", "a", "t", "a">>

E_notAnArray ==
    <<"J", "S", "O", "N", " ", "m", "u", "s", "t", " ", "b", "e", " ", "a",
      "n", " ", "a", "r", "r", "a", "y", " ", "o", "f", " ", "o", "b", "j",
      "e", "c", "t", "s", " ", "o", "r", " ", "h", "a", "v", "e", " ", "a",
      " ", "'", "d", "a", "t", "a", "'", " ", "a", "r", "r", "a", "y", " ",
      "p", "r", "o", "p", "e", "r", "t", "y", ".">>

E_invalidJson ==
    <<"I", "n", "v", "a", "l", "i", "d", " ", "J", "S", "O", "N", " ", "f",
      "i", "l", "e", ".">>

E_csvParse ==
    <<"C", "S", "V", " ", "p", "a", "r", "s", "e", " ", "e", "r", "r", "o",
      "r", ":", " ">>

E_unsupported ==
    <<"U", "n", "s", "u", "p", "p", "o", "r", "t", "e", "d", " ", "f", "i",
      "l", "e", " ", "t", "y", "p", "e", ".", " ", "P", "l", "e", "a", "s",
      "e", " ", "u", "p", "l", "o", "a", "d", " ", "a", " ", ".", "c", "s",
      "v", " ", "o", "r", " ", ".", "j", "s", "o", "n", " ", "f", "i", "l",
      "e", ".">>

endsWith(s, suffix) ==
    /\ Len(suffix) <= Len(s)
    /\ SubSeq(s, Len(s) - Len(suffix) + 1, Len(s)) = suffix

\* file.name.replace(/\.[^.]+$/, ""): the name without its last extension
withoutExtension(name) ==
    LET dots == {i \in 1..Len(name) : name[i] = "."}
        last == CHOOSE i \in dots : \A j \in dots : j <= i
    IN  IF dots = {} THEN name
        ELSE IF last = Len(name) THEN name
        ELSE SubSeq(name, 1, last - 1)

\* JSON values: an array of items, an object of entries, and the cells
Arr(items) == [t |-> "array", n |-> 0, s |-> <<>>, items |-> items]

Obj(entries) == [t |-> "object", n |-> 0, s |-> <<>>, entries |-> entries]

Unparsable == [t |-> "unparsable", n |-> 0, s |-> <<>>]

\* typeof v === "object"
isObjectType(v) == v.t \in {"object", "array", "null"}

\* raw.data of a parsed value that is not null
dataOf(raw) == IF raw.t = "object" THEN rawCell(raw.entries, N_data) ELSE Undefined

\* Array.isArray(raw) ? raw : raw.data ?? [raw]
jsonData(raw) ==
    IF raw.t = "array" THEN raw
    ELSE IF dataOf(raw).t \in {"null", "undefined"} THEN Arr(<<raw>>)
    ELSE dataOf(raw)

\* data.length === 0 || typeof data[0] !== "object"
notAnArrayOfObjects(parsed) ==
    IF parsed.t = "array"
    THEN Len(parsed.items) = 0 \/ ~isObjectType(parsed.items[1])
    ELSE TRUE

\* the rows addDataset reads from an array of objects
rowsOf(parsed) == [i \in 1..Len(parsed.items) |-> parsed.items[i].entries]

\* Object.keys, Object.entries and row[col] throw on a null row
addDatasetThrows(parsed) == \E i \in 1..Len(parsed.items) : parsed.items[i].t = "null"

\* what a callback of processFile leaves behind: the upload widget's state,
\* the store and the id counter
outcome(err, isParsing, panel, store, active, counter) ==
    [parseError |-> err, parsing |-> isParsing, showPanel |-> panel,
     datasets |-> store, activeDatasetId |-> active, nextId |-> counter]

\* reader.onload of a .json file
onload(file, panel, store, active, counter, lenient) ==
    LET raw == file.content
        failed(text, n) == outcome(Str(text), FALSE, panel, store, active, n)
    IN  IF raw.t \in {"unparsable", "null"} THEN failed(E_invalidJson, counter)
        ELSE IF notAnArrayOfObjects(jsonData(raw)) THEN failed(E_notAnArray, counter)
        ELSE IF addDatasetThrows(jsonData(raw))
             THEN failed(E_invalidJson, incremented(counter))
        ELSE outcome(Null, FALSE, TRUE,
                     Append(store, newDataset(counter, withoutExtension(file.name),
                                              rowsOf(jsonData(raw)), lenient)),
                     counter, incremented(counter))

\* the complete callback of Papa.parse
complete(file, panel, store, active, counter, lenient) ==
    LET results == file.content
    IN  IF Len(results.errors) > 0 /\ Len(results.data) = 0
        THEN outcome(Str(E_csvParse \o results.errors[1]), FALSE, panel, store,
                     active, counter)
        ELSE outcome(Null, FALSE, TRUE,
                     Append(store, newDataset(counter, withoutExtension(file.name),
                                              results.data, lenient)),
                     counter, incremented(counter))

isJson(file) == endsWith(file.name, X_json)

isDelimited(file) == endsWith(file.name, X_csv) \/ endsWith(file.name, X_tsv)

(***************************************************************************)
(* Inputs of the upload: a few files of each kind, and how many reads and  *)
(* uploads a run holds                                                     *)
(***************************************************************************)
MaxReads == 2

MaxUploads == 2

F_json == <<"s", "a", "l", "e", "s", ".", "j", "s", "o", "n">>

F_csv == <<"s", "a", "l", "e", "s", ".", "v", "2", ".", "c", "s", "v">>

F_tsv == <<"s", "a", "l", "e", "s", ".", "t", "s", "v">>

F_text == <<"n", "o", "t", "e", "s", ".", "t", "x", "t">>

M_quotes ==
    <<"Q", "u", "o", "t", "e", "d", " ", "f", "i", "e", "l", "d", " ", "u",
      "n", "t", "e", "r", "m", "i", "n", "a", "t", "e", "d">>

M_read ==
    <<"N", "o", "t", "R", "e", "a", "d", "a", "b", "l", "e", "E", "r", "r",
      "o", "r">>

UploadRow(i) == rawRowFor(i, Str(S_5), Str(S_abc), Null, Str(S_5))

UploadRows(count) == [i \in 1..count |-> UploadRow(i)]

UploadItems(count) == [i \in 1..count |-> Obj(UploadRow(i))]

JsonContents ==
    {Unparsable, Null, Num(3), Arr(<<>>), Arr(<<Num(3)>>), Arr(<<Null>>),
     Arr(UploadItems(2)), Obj(UploadRow(1)),
     Obj(<< <<N_data, Arr(UploadItems(1))>> >>), Obj(<< <<N_data, Num(3)>> >>)}

ParseResults ==
    {[data |-> UploadRows(2), errors |-> <<>>],
     [data |-> UploadRows(1), errors |-> <<M_quotes>>],
     [data |-> <<>>, errors |-> <<M_quotes>>],
     [data |-> <<>>, errors |-> <<>>]}

FileChoices ==
    {[name |-> F_json, content |-> c] : c \in JsonContents}
    \cup {[name |-> n, content |-> c] : n \in {F_csv, F_tsv}, c \in ParseResults}
    \cup {[name |-> F_text, content |-> Null]}

InitUpload ==
    /\ pc = "upload"
    /\ UploadIdle
    /\ rawData = <<>>
    /\ lenientDates \in BOOLEAN
    /\ datasets = <<>>
    /\ activeDatasetId = 0
    /\ nextId = 1
    /\ HookIdle
    /\ ThemeIdle
    /\ MatchIdle
    /\ AnalysisIdle

without(calls, k) == SubSeq(calls, 1, k - 1) \o SubSeq(calls, k + 1, Len(calls))

\* processFile(file), from handleDrop or handleFileSelect, up to the start of
\* the read
ProcessFile ==
    /\ pc = "upload"
    /\ Len(reads) < MaxReads
    /\ nextId + Len(reads) <= MaxUploads
    /\ \E file \in FileChoices :
          IF isJson(file) \/ isDelimited(file)
          THEN /\ parseError' = Null
               /\ parsing' = TRUE
               /\ reads' = Append(reads, file)
          ELSE /\ parseError' = Str(E_unsupported)
               /\ parsing' = FALSE
               /\ reads' = reads
    /\ UNCHANGED <<pc, showPanel>>
    /\ UNCHANGED <<hookVars, themeVars, matchVars, analysisVars, storeVars>>

\* the load event of a FileReader: reader.onload
ReaderLoad ==
    /\ pc = "upload"
    /\ \E k \in 1..Len(reads) :
          /\ isJson(reads[k])
          /\ LET o == onload(reads[k], showPanel, datasets, activeDatasetId, nextId,
                             lenientDates)
             IN  /\ parseError' = o.parseError
                 /\ parsing' = o.parsing
                 /\ showPanel' = o.showPanel
                 /\ datasets' = o.datasets
                 /\ activeDatasetId' = o.activeDatasetId
                 /\ nextId' = o.nextId
          /\ reads' = without(reads, k)
    /\ UNCHANGED <<pc, rawData, lenientDates>>
    /\ UNCHANGED <<hookVars, themeVars, matchVars, analysisVars>>

\* the error event of a FileReader: processFile registers no handler for it
ReaderError ==
    /\ pc = "upload"
    /\ \E k \in 1..Len(reads) :
          /\ isJson(reads[k])
          /\ reads' = without(reads, k)
    /\ UNCHANGED <<pc, parsing, parseError, showPanel>>
    /\ UNCHANGED <<hookVars, themeVars, matchVars, analysisVars, storeVars>>

\* Papa.parse has read and parsed the file: complete(results)
ParseComplete ==
    /\ pc = "upload"
    /\ \E k \in 1..Len(reads) :
          /\ ~isJson(reads[k])
          /\ LET o == complete(reads[k], showPanel, datasets, activeDatasetId, nextId,
                               lenientDates)
             IN  /\ parseError' = o.parseError
                 /\ parsing' = o.parsing
                 /\ showPanel' = o.showPanel
                 /\ datasets' = o.datasets
                 /\ activeDatasetId' = o.activeDatasetId
                 /\ nextId' = o.nextId
          /\ reads' = without(reads, k)
    /\ UNCHANGED <<pc, rawData, lenientDates>>
    /\ UNCHANGED <<hookVars, themeVars, matchVars, analysisVars>>

\* Papa.parse could not read the file: error(err)
ParseError ==
    /\ pc = "upload"
    /\ \E k \in 1..Len(reads) :
          /\ ~isJson(reads[k])
          /\ reads' = without(reads, k)
    /\ parseError' = Str(E_csvParse \o M_read)
    /\ parsing' = FALSE
    /\ UNCHANGED <<pc, showPanel>>
    /\ UNCHANGED <<hookVars, themeVars, matchVars, analysisVars, storeVars>>

\* the upload button shows and hides the panel
TogglePanel ==
    /\ pc = "upload"
    /\ showPanel' = ~showPanel
    /\ UNCHANGED <<pc, parsing, parseError, reads>>
    /\ UNCHANGED <<hookVars, themeVars, matchVars, analysisVars, storeVars>>

NextUpload ==
    ProcessFile \/ ReaderLoad \/ ReaderError \/ ParseComplete \/ ParseError
    \/ TogglePanel

\* a read that was started ends in one of its events: a FileReader fires
\* load or error, Papa.parse calls complete or error.  The steps that take
\* the call for a file out of reads are ReaderLoad, ReaderError,
\* ParseComplete and ParseError, and one of them is possible as long as the
\* call is in reads.
ReadEnds(file) ==
    \E k \in 1..Len(reads) : reads[k] = file /\ reads' = without(reads, k)

SpecUpload ==
    /\ InitUpload
    /\ [][NextUpload]_vars
    /\ \A file \in FileChoices : WF_reads(ReadEnds(file))

(***************************************************************************)
(* Claims about the upload                                                 *)
(***************************************************************************)
\* C26 as stated: every processFile call eventually sets parsing back to
\* false, whatever the outcome of the read or parse (success, parse error,
\* read failure, unsupported type), and ends with either a dataset added or
\* parseError set.
C26_Original ==
    /\ parsing ~> ~parsing
    /\ [][Len(reads') < Len(reads) =>
            /\ ~parsing'
            /\ Len(datasets') > Len(datasets) \/ parseError' # Null]_vars


(***************************************************************************)
(* DataProvider: the store of datasets and the operations the page and the *)
(* upload panel call on it                                                 *)
(***************************************************************************)
\* prev.filter((d) => d.id !== id)
removeFrom(prev, id) ==
    LET kept(d) == d.id # id
    IN  SelectSeq(prev, kept)

activeKept(prev, id) == prev

\* prev === id ? null : prev
activeAfterRemove(prev, id) == IF prev = id THEN 0 ELSE prev

(***************************************************************************)
(* Inputs of the store: the rows and names of the datasets added, and how  *)
(* many datasets a run adds                                                *)
(***************************************************************************)
MaxAdded == 3

StoredIds == {datasets[k].id : k \in 1..Len(datasets)}

InitStore ==
    /\ pc = "store"
    /\ rawData = <<>>
    /\ lenientDates \in BOOLEAN
    /\ datasets = <<>>
    /\ activeDatasetId = 0
    /\ nextId = 1
    /\ FrontIdle
    /\ MatchIdle
    /\ AnalysisIdle

\* addDataset(name, rawData)
AddNamedDataset ==
    /\ pc \in {"store", "added", "removed", "selected", "cleared"}
    /\ nextId <= MaxAdded
    /\ \E name \in {F_json, F_csv}, count \in 0..2 :
          datasets' = Append(datasets, newDataset(nextId, withoutExtension(name),
                                                  UploadRows(count), lenientDates))
    /\ activeDatasetId' = nextId
    /\ nextId' = incremented(nextId)
    /\ pc' = "added"
    /\ UNCHANGED <<rawData, lenientDates>>
    /\ UNCHANGED <<frontVars, matchVars, analysisVars>>

\* removeDataset(ds.id), from the bin button of a listed dataset
RemoveDataset ==
    /\ pc \in {"store", "added", "removed", "selected", "cleared"}
    /\ \E id \in StoredIds :
          /\ datasets' = removeFrom(datasets, id)
          /\ activeDatasetId' = activeAfterRemove(activeDatasetId, id)
    /\ pc' = "removed"
    /\ UNCHANGED <<rawData, lenientDates, nextId>>
    /\ UNCHANGED <<frontVars, matchVars, analysisVars>>

\* setActiveDataset(id), with the id of a listed dataset or null
SetActiveDataset ==
    /\ pc \in {"store", "added", "removed", "selected", "cleared"}
    /\ \E id \in StoredIds \cup {0} : activeDatasetId' = id
    /\ pc' = "selected"
    /\ UNCHANGED <<rawData, lenientDates, datasets, nextId>>
    /\ UNCHANGED <<frontVars, matchVars, analysisVars>>

\* clearAll()
ClearAll ==
    /\ pc \in {"store", "added", "removed", "selected", "cleared"}
    /\ datasets' = <<>>
    /\ activeDatasetId' = 0
    /\ pc' = "cleared"
    /\ UNCHANGED <<rawData, lenientDates, nextId>>
    /\ UNCHANGED <<frontVars, matchVars, analysisVars>>

NextStore == AddNamedDataset \/ RemoveDataset \/ SetActiveDataset \/ ClearAll

SpecStore == InitStore /\ [][NextStore]_vars

(***************************************************************************)
(* Claims about the store                                                  *)
(***************************************************************************)
\* C27: after any sequence of addDataset, removeDataset, clearAll and
\* setActiveDataset(id) with id null or the id of a stored dataset,
\* activeDatasetId is null or the id of a stored dataset; addDataset makes
\* the new dataset the active one, and removing the active dataset makes the
\* active id null.
C27_ActiveIsStored ==
    [][/\ activeDatasetId' = 0
          \/ \E k \in 1..Len(datasets') : datasets'[k].id = activeDatasetId'
       /\ pc' = "added" =>
            /\ Len(datasets') = Len(datasets) + 1
            /\ activeDatasetId' = datasets'[Len(datasets')].id
       /\ (/\ pc' = "removed"
           /\ \A k \in 1..Len(datasets') : datasets'[k].id # activeDatasetId) =>
            activeDatasetId' = 0]_vars

\* the active dataset was removed while another one stayed
C27_Witness ==
    /\ pc = "removed"
    /\ activeDatasetId = 0
    /\ Len(datasets) = 1
    /\ datasets[1].id = 1
    /\ nextId = 3

\* C28: dataset ids are unique over the whole history of the store: a
\* dataset that enters the store gets an id no dataset got before (every id
\* handed out so far is below the counter, a new id is not, and the counter
\* never goes back), so no two datasets share an id and an id freed by
\* removeDataset or clearAll is not used again.
C28_IdsNeverReused ==
    [][/\ nextId' >= nextId
       /\ \A k \in 1..Len(datasets') : datasets'[k].id < nextId'
       /\ \A k \in 1..Len(datasets') :
             (\A j \in 1..Len(datasets) : datasets[j].id # datasets'[k].id) =>
                 datasets'[k].id >= nextId
       /\ \A j \in 1..Len(datasets') : \A k \in 1..Len(datasets') :
             j # k => datasets'[j].id # datasets'[k].id]_vars

\* a dataset was added after the ids 1 and 2 had been freed
C28_Witness ==
    /\ pc = "added"
    /\ Len(datasets) = 1
    /\ datasets[1].id = 3
    /\ nextId = 4


(***************************************************************************)
(* ThemeProvider: the preference, the theme resolved from it, and the two  *)
(* effects React runs after a render has been committed                    *)
(***************************************************************************)
Preferences == {"light", "dark", "system"}

\* window.matchMedia("(prefers-color-scheme: dark)").matches ? "dark" : "light"
getSystemTheme(matches) == IF matches THEN "dark" ELSE "light"

resolveTheme(pref, matches) == IF pref = "system" THEN getSystemTheme(matches) ELSE pref

\* the initializer of the preference state
initialPreference(item, default) == IF item \in Preferences THEN item ELSE default

\* order[(order.indexOf(preference) + 1) % order.length]
nextPreference(pref) ==
    LET order == <<"light", "dark", "system">>
        idx == (CHOOSE i \in 1..Len(order) : order[i] = pref) - 1
    IN  order[((idx + 1) % Len(order)) + 1]

\* what localStorage may hold under the key before the provider is mounted
StoredChoices == {"", "light", "dark", "system", "auto"}

InitTheme ==
    /\ pc = "theme"
    /\ stored \in StoredChoices
    /\ defaultPreference \in Preferences
    /\ systemDark \in BOOLEAN
    /\ preference = initialPreference(stored, defaultPreference)
    /\ resolvedTheme = resolveTheme(preference, systemDark)
    /\ listening = FALSE
    /\ darkClass = FALSE
    /\ HookIdle
    /\ UploadIdle
    /\ MatchIdle
    /\ AnalysisIdle
    /\ StoreIdle

\* setPreference(pref); localStorage.setItem may throw, which is swallowed
SetPreference ==
    /\ pc = "theme"
    /\ \E pref \in Preferences :
          /\ preference' = pref
          /\ resolvedTheme' = resolveTheme(pref, systemDark)
          /\ stored' \in {pref, stored}
    /\ UNCHANGED <<pc, systemDark, listening, darkClass, defaultPreference>>
    /\ UNCHANGED <<hookVars, uploadVars, matchVars, analysisVars, storeVars>>

\* cycleTheme()
CycleTheme ==
    /\ pc = "theme"
    /\ preference' = nextPreference(preference)
    /\ resolvedTheme' = resolveTheme(nextPreference(preference), systemDark)
    /\ stored' \in {nextPreference(preference), stored}
    /\ UNCHANGED <<pc, systemDark, listening, darkClass, defaultPreference>>
    /\ UNCHANGED <<hookVars, uploadVars, matchVars, analysisVars, storeVars>>

\* the effect on [resolvedTheme]: the class of <html> follows the theme
ApplyThemeClass ==
    /\ pc = "theme"
    /\ darkClass # (resolvedTheme = "dark")
    /\ darkClass' = (resolvedTheme = "dark")
    /\ UNCHANGED <<pc, preference, resolvedTheme, systemDark, listening, stored,
                   defaultPreference>>
    /\ UNCHANGED <<hookVars, uploadVars, matchVars, analysisVars, storeVars>>

\* the effect on [preference]: its cleanup removes the change handler, and
\* it registers the handler again if the preference is "system"
ListenToSystem ==
    /\ pc = "theme"
    /\ listening # (preference = "system")
    /\ listening' = (preference = "system")
    /\ UNCHANGED <<pc, preference, resolvedTheme, systemDark, darkClass, stored,
                   defaultPreference>>
    /\ UNCHANGED <<hookVars, uploadVars, matchVars, analysisVars, storeVars>>

\* the OS colour scheme changes; the media query fires change, and the
\* handler runs if it is registered
SystemThemeChange ==
    /\ pc = "theme"
    /\ systemDark' = ~systemDark
    /\ resolvedTheme' = IF listening THEN getSystemTheme(~systemDark) ELSE resolvedTheme
    /\ UNCHANGED <<pc, preference, listening, darkClass, stored, defaultPreference>>
    /\ UNCHANGED <<hookVars, uploadVars, matchVars, analysisVars, storeVars>>

NextTheme ==
    CycleTheme \/ SetPreference \/ ApplyThemeClass \/ ListenToSystem
    \/ SystemThemeChange

SpecTheme == InitTheme /\ [][NextTheme]_vars

=============================================================================
